---- MODULE Spec2Model ----
(***************************************************************************)
(* Verification model of pm-nba-agent.                                     *)
(*                                                                         *)
(* Part I   Task orchestrator: TaskManager (worker/task_manager.py),       *)
(*          GameTask.run (worker/game_task.py), the task routes            *)
(*          (api/routes/tasks.py) and the persisted store.                 *)
(* Part II  Order book cache: StrategyState.update_book                    *)
(*          (api/services/game_stream.py) and SideData                     *)
(*          (polymarket/models.py).                                        *)
(* Part III Configuration: GameTask.update_config, _deep_merge_dict        *)
(*          (worker/game_task.py) and TaskConfig.from_dict                 *)
(*          (shared/task_models.py).                                       *)
(* Part IV  Socket client: PolymarketWebSocketClient                       *)
(*          (polymarket/ws_client.py): connect, backoff, heartbeat,        *)
(*          subscribe and unsubscribe.                                     *)
(* Part V   Frames: PolymarketWebSocketClient._on_message and the queue    *)
(*          of PolymarketBookStream (polymarket/book_stream.py).           *)
(* Part VI  Strategies and execution: MergeLongStrategy,                   *)
(*          LockedProfitStrategy (polymarket/strategies),                  *)
(*          PositionContext (polymarket/models.py) and StrategyExecutor    *)
(*          (polymarket/executor.py).                                      *)
(* Part VII Objects of a pipeline: StrategyRegistry                        *)
(*          (polymarket/strategies/registry.py) and the StrategyState of   *)
(*          a stream (api/services/game_stream.py).                        *)
(* Part VIII Message loop of StrategyExecutor: _handle_message,            *)
(*          _update_order_book and _build_snapshot                         *)
(*          (polymarket/executor.py).                                      *)
(* Part IX  Book stream: PolymarketBookStream.start and close              *)
(*          (polymarket/book_stream.py) with the socket threads of the     *)
(*          clients it creates (polymarket/ws_client.py).                  *)
(***************************************************************************)
EXTENDS Integers, Sequences, FiniteSets, TLC

(***************************************************************************)
(* Bounds                                                                  *)
(***************************************************************************)
MaxControl == 2     \* control messages published and not yet handled
MaxPrice == 2       \* prices are ticks 1..MaxPrice
MaxSize == 2        \* sizes carried by a delta are 0..MaxSize
MaxBookSize == 1    \* sizes carried by a full-book message are 1..MaxBookSize
MaxLevels == 2      \* levels per side carried by a full-book message
MaxChanges == 1     \* entries of price_changes carried by a delta message
MaxMsgs == 4        \* messages applied to one order book cache
MaxPatchFields == 2 \* fields named by one update_config patch
MaxAttempts == 7    \* faults in a row of one socket connection
MaxConfigured == 2  \* the MAX_RECONNECT_ATTEMPTS of a client configured with one
MaxCalls == 2       \* subscribe / unsubscribe calls on one client
MaxFrames == 3      \* frames received on one socket
MaxObjects == 6     \* objects constructed by the streams of one process
MaxHandled == 3     \* messages one StrategyExecutor handles
MaxClients == 2     \* clients one PolymarketBookStream creates

\* Tasks share nothing but TaskManager._tasks, keyed by task id, and the
\* control channel; the orchestrator is modelled for one task id.
TaskIds == {"t1"}

(***************************************************************************)
(* Part I: state                                                           *)
(***************************************************************************)
VARIABLES
    mgr,         \* worker process / TaskManager: "down", "listening",
                 \* "closing" (_running = False, still subscribed), "idle",
                 \* "stopping" (inside stop()), "stopped" (exited after stop())
    control,     \* messages published on Channels.CONTROL, not yet handled
    lastOp,      \* operation the last handled control message was dispatched to
    status_key,  \* persisted status record per task id (state "none": absent)
    config_key,  \* TRUE iff the persisted configuration record exists
    all_tasks,   \* persisted set Channels.all_tasks()
    tasks,       \* TaskManager._tasks (its key set)
    gt           \* the GameTask object and its asyncio task, per task id

taskVars == <<mgr, control, lastOp, status_key, config_key, all_tasks, tasks, gt>>

(***************************************************************************)
(* Part II: state (StrategyState's order book cache)                       *)
(***************************************************************************)
VARIABLES
    yes_bids, yes_asks, no_bids, no_asks,   \* lists of OrderLevel
    nmsg                                    \* number of messages applied

bookVars == <<yes_bids, yes_asks, no_bids, no_asks, nmsg>>

(***************************************************************************)
(* Part III: state (the configuration of one GameTask)                     *)
(***************************************************************************)
VARIABLES
    config,      \* GameTask.config, as the dict TaskConfig.to_dict() gives
    patch,       \* the patch of the last update_config call
    persisted,   \* the JSON text config.to_json() gave, once it was called
    restored     \* the TaskConfig that from_json made of persisted

cfgVars == <<config, patch, persisted, restored>>

(***************************************************************************)
(* Part IV: state (one PolymarketWebSocketClient)                          *)
(***************************************************************************)
VARIABLES
    ws_pc,              \* position of the socket thread (_run_forever)
    is_connected,       \* PolymarketWebSocketClient.is_connected
    subscribed_assets,  \* _subscribed_assets (a list without duplicates)
    has_init,           \* _has_initialized_subscription
    reconnect_attempts, \* _reconnect_attempts
    delay,              \* the delay of the last backoff wait, in seconds
    max_reconnect,      \* MAX_RECONNECT_ATTEMPTS: [set, n], set FALSE for None
    open_msg,           \* asset ids of the subscribe_msg built by _on_open
    hb,                 \* the heartbeat thread: "none", "alive", "exited"
    stop_hb,            \* _stop_heartbeat
    caller,             \* the subscribe / unsubscribe call in progress
    ncalls,             \* subscribe / unsubscribe calls made
    server,             \* asset ids subscribed on the current connection
    batched,            \* batched subscribe messages sent on the connection
    faults,             \* faults in a row since the last successful open
    hb_failed,          \* a keepalive send failed on the current connection
    on_error_called     \* the last socket-thread step called on_error

wsVars == <<ws_pc, is_connected, subscribed_assets, has_init, reconnect_attempts,
            delay, max_reconnect, open_msg, hb, stop_hb, caller, ncalls, server,
            batched, faults, hb_failed, on_error_called>>

(***************************************************************************)
(* Part V: state (the frames of one PolymarketBookStream)                  *)
(***************************************************************************)
VARIABLES
    rx,           \* frames received on the socket, in order
    scheduled,    \* on_message_callback(data) calls handed to the event loop
    calls,        \* data of the _handle_message calls that have run
    queue,        \* PolymarketBookStream._queue
    loop_running  \* the event loop of connect() is running

frameVars == <<rx, scheduled, calls, queue, loop_running>>

(***************************************************************************)
(* Part VI: state (one strategy call and one StrategyExecutor)             *)
(***************************************************************************)
VARIABLES
    order_book,  \* OrderBookContext: the four best prices
    params,      \* the strategy parameters
    position,    \* PositionContext
    signal,      \* the TradingSignal of the last generate_signal call
    updates,     \* the update_position calls made on position, in order
    execution_mode,  \* ExecutorConfig.execution_mode
    result       \* the ExecutionResult of the last _execute_strategy call

tradeVars == <<order_book, params, position, signal, updates, execution_mode, result>>

(***************************************************************************)
(* Part VII: state (the objects the streams of one process use)            *)
(***************************************************************************)
VARIABLES
    _instances,  \* StrategyRegistry._instances: strategy_id -> instance
    objects,     \* how many objects have been constructed; an object is
                 \* identified by its rank of construction
    streams      \* per task, the objects its stream works with

registryVars == <<_instances, objects, streams>>

(***************************************************************************)
(* Part VIII: state (the message loop of one StrategyExecutor)             *)
(***************************************************************************)
VARIABLES
    cache,       \* _yes_bids, _yes_asks, _no_bids, _no_asks, _yes_price, _no_price
    handled,     \* how many _handle_message calls have returned
    last_handled \* what the last _handle_message call did

loopVars == <<cache, handled, last_handled>>

(***************************************************************************)
(* Part I: state (history of TaskManager.stop)                             *)
(***************************************************************************)
VARIABLES
    stopped_running  \* the tasks that were RUNNING when stop() was last called

stopVars == <<stopped_running>>

(***************************************************************************)
(* Part I: state (the observers attached through subscribe_task)           *)
(***************************************************************************)
VARIABLES
    observer     \* per task id, the subscribe_task request of one client

observerVars == <<observer>>

(***************************************************************************)
(* Part IV: state (the stop request of PolymarketWebSocketClient.close)    *)
(***************************************************************************)
VARIABLES
    stop_reconnect      \* _stop_reconnect: close() has asked the socket thread to stop

closeVars == <<stop_reconnect>>

(***************************************************************************)
(* Part IX: state (one PolymarketBookStream and the clients it creates)    *)
(***************************************************************************)
VARIABLES
    clients,            \* the PolymarketWebSocketClient objects start() has created
    _client,            \* PolymarketBookStream._client (NoClient for None)
    _is_ready,          \* PolymarketBookStream._is_ready
    start_call,         \* the start() call in progress: "idle", "connecting"
    last_start,         \* how the last start() returned: "none", "ok", "timed_out"
    feeders             \* the clients that have put a frame on _queue

bookStreamVars == <<clients, _client, _is_ready, start_call, last_start, feeders>>

vars == <<taskVars, bookVars, cfgVars, wsVars, frameVars, tradeVars, registryVars, loopVars, stopVars, observerVars, closeVars, bookStreamVars>>

\* what the actions of one part leave alone
notTaskVars == <<bookVars, cfgVars, wsVars, frameVars, tradeVars, registryVars, loopVars, stopVars, observerVars, closeVars, bookStreamVars>>
notBookVars == <<taskVars, cfgVars, wsVars, frameVars, tradeVars, registryVars, loopVars, stopVars, observerVars, closeVars, bookStreamVars>>
notCfgVars == <<taskVars, bookVars, wsVars, frameVars, tradeVars, registryVars, loopVars, stopVars, observerVars, closeVars, bookStreamVars>>
notWsVars == <<taskVars, bookVars, cfgVars, frameVars, tradeVars, registryVars, loopVars, stopVars, observerVars, closeVars, bookStreamVars>>
notFrameVars == <<taskVars, bookVars, cfgVars, wsVars, tradeVars, registryVars, loopVars, stopVars, observerVars, closeVars, bookStreamVars>>
notTradeVars == <<taskVars, bookVars, cfgVars, wsVars, frameVars, registryVars, loopVars, stopVars, observerVars, closeVars, bookStreamVars>>
notRegistryVars == <<taskVars, bookVars, cfgVars, wsVars, frameVars, tradeVars, loopVars, stopVars, observerVars, closeVars, bookStreamVars>>
notLoopVars == <<taskVars, bookVars, cfgVars, wsVars, frameVars, tradeVars, registryVars, stopVars, observerVars, closeVars, bookStreamVars>>
notStopVars == <<taskVars, bookVars, cfgVars, wsVars, frameVars, tradeVars, registryVars, loopVars, observerVars, closeVars, bookStreamVars>>

\* shared/task_models.py TaskState
PENDING == "pending"
RUNNING == "running"
COMPLETED == "completed"
CANCELLED == "cancelled"
FAILED == "failed"
TaskState == {PENDING, RUNNING, COMPLETED, CANCELLED, FAILED}
Terminal == {COMPLETED, CANCELLED, FAILED}

\* the actions a control message can carry (spec section 6, plus "shutdown")
ControlActions == {"create", "cancel", "update_config", "refresh_positions", "shutdown"}

\* positions of GameTask.run: the await it is suspended at
PreTry == {"load", "save_run", "pub_run", "refresh0"}
InTry == {"stream_wait", "handle", "publish"}
InFinally == {"fin_refresh", "fin_save", "fin_pub", "fin_end"}
Ended == {"returned", "raised"}
Done == Ended \cup {"never_started"}

NoTask ==
    [pc |-> "none", cancelled |-> FALSE, must_cancel |-> FALSE, state |-> "none",
     error |-> FALSE, ends |-> 0, fatal |-> FALSE, cwb |-> FALSE]

\* GameTask.__init__ followed by asyncio.create_task(self._run_task(...))
NewGameTask == [NoTask EXCEPT !.pc = "created"]

NoStatus == [state |-> "none", error |-> FALSE]

\* TaskStatus.create
TaskStatus_create == [state |-> PENDING, error |-> FALSE]

TaskInit ==
    /\ mgr = "down"
    /\ control = <<>>
    /\ lastOp = "idle"
    /\ status_key = [t \in TaskIds |-> NoStatus]
    /\ config_key = [t \in TaskIds |-> FALSE]
    /\ all_tasks = {}
    /\ tasks = {}
    /\ gt = [t \in TaskIds |-> NoTask]

Subscribed == mgr \in {"listening", "closing"}

BookIdle ==
    /\ yes_bids = <<>> /\ yes_asks = <<>>
    /\ no_bids = <<>> /\ no_asks = <<>>
    /\ nmsg = 0

(***************************************************************************)
(* The persisted store and the control channel                             *)
(***************************************************************************)

\* redis.publish(Channels.CONTROL, m): delivered to the listener if it is
\* subscribed, lost otherwise (pub/sub keeps nothing for absent subscribers)
Published(m) == IF Subscribed THEN Append(control, m) ELSE control

CanPublish == Subscribed => Len(control) < MaxControl

\* POST /create (api/routes/tasks.py create_task): a fresh task id; the
\* configuration and a PENDING status are persisted, the id is added to the
\* task set, then the create command is published.
RouteCreateTask(t) ==
    /\ t \notin all_tasks
    /\ gt[t].pc = "none"
    /\ CanPublish
    /\ config_key' = [config_key EXCEPT ![t] = TRUE]
    /\ status_key' = [status_key EXCEPT ![t] = TaskStatus_create]
    /\ all_tasks' = all_tasks \cup {t}
    /\ control' = Published([action |-> "create", task |-> t])
    /\ UNCHANGED <<mgr, lastOp, tasks, gt, notTaskVars>>

\* Any publisher of the control channel (the cancel, update-config and
\* refresh-positions routes, or another client of the documented channel)
PublishControl(a, t) ==
    /\ Subscribed
    /\ Len(control) < MaxControl
    /\ control' = Append(control, [action |-> a, task |-> t])
    /\ UNCHANGED <<mgr, lastOp, status_key, config_key, all_tasks, tasks, gt, notTaskVars>>

\* The configuration record is written once with ex=86400 and never
\* refreshed by the worker, while the status record is rewritten (and its
\* expiry renewed) by every _save_status of the running task.
ExpireConfig(t) ==
    /\ config_key[t]
    /\ config_key' = [config_key EXCEPT ![t] = FALSE]
    /\ UNCHANGED <<mgr, control, lastOp, status_key, all_tasks, tasks, gt, notTaskVars>>

(***************************************************************************)
(* TaskManager                                                             *)
(***************************************************************************)

\* GameTask.cancel
GameTask_cancel(g) ==
    [g EXCEPT !.cancelled = TRUE,
              !.must_cancel = IF g.pc \notin Done THEN TRUE ELSE g.must_cancel,
              !.cwb = g.cwb \/ g.pc = "stream_wait"]

\* _recover_tasks with the RUNNING state left out of its state test
Recoverable_PendingOnly(t) ==
    /\ t \in all_tasks
    /\ status_key[t].state = PENDING
    /\ config_key[t]

\* TaskManager._recover_tasks: the ids it re-creates a GameTask for
Recoverable(t) ==
    /\ t \in all_tasks
    /\ status_key[t].state # "none"
    /\ status_key[t].state \in {PENDING, RUNNING}
    /\ config_key[t]

\* TaskManager.start: _running = True, _recover_tasks, then _listen_control
Start ==
    /\ mgr \in {"down", "stopped"}
    /\ mgr' = "listening"
    /\ tasks' = {t \in TaskIds : Recoverable(t)}
    /\ gt' = [t \in TaskIds |-> IF Recoverable(t) THEN NewGameTask ELSE NoTask]
    /\ control' = <<>>
    /\ lastOp' = "idle"
    /\ UNCHANGED <<status_key, config_key, all_tasks, notTaskVars>>

\* The worker process stops without running any handler
Crash ==
    /\ mgr # "down"
    /\ mgr' = "down"
    /\ tasks' = {}
    /\ gt' = [t \in TaskIds |-> NoTask]
    /\ control' = <<>>
    /\ lastOp' = "idle"
    /\ UNCHANGED <<status_key, config_key, all_tasks, notTaskVars>>

\* create_task without its test of _tasks
create_task_unchecked(t) ==
    /\ config_key' = [config_key EXCEPT ![t] = TRUE]
    /\ all_tasks' = all_tasks \cup {t}
    /\ tasks' = tasks \cup {t}
    /\ gt' = [gt EXCEPT ![t] = NewGameTask]

\* TaskManager.create_task
create_task(t) ==
    IF t \in tasks
    THEN UNCHANGED <<config_key, all_tasks, tasks, gt>>
    ELSE /\ config_key' = [config_key EXCEPT ![t] = TRUE]
         /\ all_tasks' = all_tasks \cup {t}
         /\ tasks' = tasks \cup {t}
         /\ gt' = [gt EXCEPT ![t] = NewGameTask]

\* TaskManager.cancel_task
cancel_task(t) ==
    /\ gt' = IF t \in tasks THEN [gt EXCEPT ![t] = GameTask_cancel(gt[t])] ELSE gt
    /\ UNCHANGED <<config_key, all_tasks, tasks>>

\* the operation _handle_control_message dispatches an action to
DispatchedOp(a) ==
    CASE a = "create" -> "create_task"
      [] a = "cancel" -> "cancel_task"
      [] a = "shutdown" -> "shutdown"
      [] OTHER -> "unknown"

\* One iteration of TaskManager._listen_control: take the next message,
\* leave the loop if _running is False, else _handle_control_message
HandleControl ==
    /\ Subscribed
    /\ control # <<>>
    /\ LET m == Head(control) IN
       IF mgr = "closing"
       THEN /\ mgr' = "idle"
            /\ control' = <<>>
            /\ UNCHANGED <<lastOp, config_key, all_tasks, tasks, gt>>
       ELSE /\ control' = Tail(control)
            /\ lastOp' = DispatchedOp(m.action)
            /\ CASE m.action = "create" ->
                      create_task(m.task) /\ mgr' = mgr
                 [] m.action = "cancel" ->
                      cancel_task(m.task) /\ mgr' = mgr
                 [] m.action = "shutdown" ->
                      mgr' = "closing" /\ UNCHANGED <<config_key, all_tasks, tasks, gt>>
                 [] OTHER ->
                      UNCHANGED <<mgr, config_key, all_tasks, tasks, gt>>
    /\ UNCHANGED <<status_key, notTaskVars>>

(***************************************************************************)
(* GameTask.run, one action per await it can be suspended at.  A step is   *)
(* taken only while no cancellation is pending: Task.cancel() makes the    *)
(* next resumption of the coroutine raise CancelledError (Deliver).        *)
(***************************************************************************)

Runnable(t, p) == gt[t].pc = p /\ ~gt[t].must_cancel

\* what the final publication of run() leaves alone besides Part I's state
notTaskObserverVars == <<bookVars, cfgVars, wsVars, frameVars, tradeVars, registryVars, loopVars, stopVars, closeVars, bookStreamVars>>

\* no subscribe_task request has been made
NoObserver == [pc |-> "idle", task_end |-> FALSE]

ObserverIdle == observer = [t \in TaskIds |-> NoObserver]

\* redis.publish of the task_end event: pub/sub hands it to the connections
\* subscribed at that moment, and event_generator yields it and leaves its
\* loop (live_stream.py lines 185-194)
OnTaskEnd(o) ==
    IF o.pc = "listening" THEN [pc |-> "ended", task_end |-> TRUE] ELSE o

\* subscribe_task up to its return: the persisted status is read; 404 if it
\* is absent, the final task_end event if it is terminal, else the
\* StreamingResponse of event_generator, which has not run yet
SubscribeTask(t) ==
    /\ observer[t].pc = "idle"
    /\ observer' = [observer EXCEPT ![t] =
          IF status_key[t].state = "none" THEN [pc |-> "rejected", task_end |-> FALSE]
          ELSE IF status_key[t].state \in Terminal THEN [pc |-> "ended", task_end |-> TRUE]
          ELSE [pc |-> "attached", task_end |-> FALSE]]
    /\ UNCHANGED <<taskVars, notTaskObserverVars>>

\* event_generator starts: pubsub.subscribe(channel), then the subscribed,
\* task_status and snapshot events, then the wait for channel messages
EventGenerator(t) ==
    /\ observer[t].pc = "attached"
    /\ observer' = [observer EXCEPT ![t].pc = "listening"]
    /\ UNCHANGED <<taskVars, notTaskObserverVars>>

\* TaskManager._run_task's finally: self._tasks.pop(task_id, None)
Popped(t) == tasks \ {t}

\* first step of the asyncio task: run() up to its first await (line 112)
StepStart(t) ==
    /\ Runnable(t, "created")
    /\ gt' = [gt EXCEPT ![t].pc = "load"]
    /\ UNCHANGED <<mgr, control, lastOp, status_key, config_key, all_tasks, tasks, notTaskVars>>

\* _load_or_create_status, then status.update_state(RUNNING)
StepLoad(t) ==
    /\ Runnable(t, "load")
    /\ LET loaded == IF status_key[t].state = "none" THEN TaskStatus_create
                     ELSE status_key[t] IN
       gt' = [gt EXCEPT ![t].pc = "save_run", ![t].state = RUNNING,
                        ![t].error = loaded.error]
    /\ UNCHANGED <<mgr, control, lastOp, status_key, config_key, all_tasks, tasks, notTaskVars>>

\* GameTask._save_status: the in-memory status replaces the persisted record
_save_status(t) == [status_key EXCEPT ![t] = [state |-> gt[t].state, error |-> gt[t].error]]

\* await self._save_status(status) (line 114)
StepSaveRunning(t) ==
    /\ Runnable(t, "save_run")
    /\ status_key' = _save_status(t)
    /\ gt' = [gt EXCEPT ![t].pc = "pub_run"]
    /\ UNCHANGED <<mgr, control, lastOp, config_key, all_tasks, tasks, notTaskVars>>

\* lines 115-118: _publish_status, _publish_auto_buy_state,
\* _publish_auto_sell_state, _publish_position_state.  They are outside the
\* try block; _publish_auto_sell_state reads self.config.auto_sell, which
\* the TaskConfig of shared/task_models.py does not define, so the step
\* either completes or raises out of run().
StepPublishRunning(t) ==
    /\ Runnable(t, "pub_run")
    /\ \/ /\ gt' = [gt EXCEPT ![t].pc = "refresh0"]
          /\ tasks' = tasks
       \/ /\ gt' = [gt EXCEPT ![t].pc = "raised"]
          /\ tasks' = Popped(t)
    /\ UNCHANGED <<mgr, control, lastOp, status_key, config_key, all_tasks, notTaskVars>>

\* lines 119-120: create the position refresh task, refresh_positions_once;
\* then _run_stream up to the first wait for a stream event
StepRefresh(t) ==
    /\ Runnable(t, "refresh0")
    /\ gt' = [gt EXCEPT ![t].pc = "stream_wait"]
    /\ UNCHANGED <<mgr, control, lastOp, status_key, config_key, all_tasks, tasks, notTaskVars>>

\* create_stream yields an event to the loop of _run_stream (line 175).
\* fatal: the event is an ErrorEvent with recoverable=False
\* (URL_PARSE_ERROR, GAME_NOT_FOUND), after which the stream returns.
StreamYield(t, fatal) ==
    /\ Runnable(t, "stream_wait")
    /\ ~gt[t].fatal
    /\ gt' = [gt EXCEPT ![t].pc = IF gt[t].cancelled THEN "fin_refresh" ELSE "handle",
                        ![t].state = IF gt[t].cancelled THEN CANCELLED ELSE @,
                        ![t].fatal = fatal]
    /\ UNCHANGED <<mgr, control, lastOp, status_key, config_key, all_tasks, tasks, notTaskVars>>

\* _handle_runtime_event (line 179): token mapping, auto buy / auto sell
\* order submission; an exception leaves the loop and reaches except Exception
StepHandle(t) ==
    /\ Runnable(t, "handle")
    /\ \/ gt' = [gt EXCEPT ![t].pc = "publish"]
       \/ gt' = [gt EXCEPT ![t].pc = "fin_refresh", ![t].state = FAILED, ![t].error = TRUE]
    /\ UNCHANGED <<mgr, control, lastOp, status_key, config_key, all_tasks, tasks, notTaskVars>>

\* _publish_event (line 182) and, for a scoreboard event that changes the
\* game info, _save_status and _publish_status (lines 185-189)
StepPublish(t) ==
    /\ Runnable(t, "publish")
    /\ gt' = [gt EXCEPT ![t].pc = "stream_wait"]
    /\ \/ status_key' = status_key
       \/ status_key' = _save_status(t)
    /\ UNCHANGED <<mgr, control, lastOp, config_key, all_tasks, tasks, notTaskVars>>

\* the stream is exhausted: _run_stream returns, lines 125-128
StreamEnd(t) ==
    /\ Runnable(t, "stream_wait")
    /\ gt' = [gt EXCEPT ![t].pc = "fin_refresh",
                        ![t].state = IF gt[t].cancelled THEN CANCELLED ELSE COMPLETED]
    /\ UNCHANGED <<mgr, control, lastOp, status_key, config_key, all_tasks, tasks, notTaskVars>>

\* the stream raises: except Exception, lines 132-134
StreamRaise(t) ==
    /\ Runnable(t, "stream_wait")
    /\ ~gt[t].fatal
    /\ gt' = [gt EXCEPT ![t].pc = "fin_refresh", ![t].state = FAILED, ![t].error = TRUE]
    /\ UNCHANGED <<mgr, control, lastOp, status_key, config_key, all_tasks, tasks, notTaskVars>>

\* finally, lines 136-141: cancel and await the position refresh task
FinRefresh(t) ==
    /\ Runnable(t, "fin_refresh")
    /\ gt' = [gt EXCEPT ![t].pc = "fin_save"]
    /\ UNCHANGED <<mgr, control, lastOp, status_key, config_key, all_tasks, tasks, notTaskVars>>

\* finally, line 142: await self._save_status(status)
FinSave(t) ==
    /\ Runnable(t, "fin_save")
    /\ status_key' = _save_status(t)
    /\ gt' = [gt EXCEPT ![t].pc = "fin_pub"]
    /\ UNCHANGED <<mgr, control, lastOp, config_key, all_tasks, tasks, notTaskVars>>

\* finally, line 143: await self._publish_status(status)
FinPublishStatus(t) ==
    /\ Runnable(t, "fin_pub")
    /\ gt' = [gt EXCEPT ![t].pc = "fin_end"]
    /\ UNCHANGED <<mgr, control, lastOp, status_key, config_key, all_tasks, tasks, notTaskVars>>

\* finally, lines 145-147: publish task_end; run() returns and _run_task
\* removes the task from _tasks
FinTaskEnd(t) ==
    /\ Runnable(t, "fin_end")
    /\ gt' = [gt EXCEPT ![t].pc = "returned", ![t].ends = @ + 1]
    /\ tasks' = Popped(t)
    /\ observer' = [observer EXCEPT ![t] = OnTaskEnd(@)]
    /\ UNCHANGED <<mgr, control, lastOp, status_key, config_key, all_tasks, notTaskObserverVars>>

\* The coroutine is resumed with CancelledError at the await it is
\* suspended at.
\*   not started yet: the exception is thrown into the unstarted coroutine,
\*     no line of _run_task runs (the entry stays in _tasks)
\*   lines 112-120:   outside try, the exception leaves run()
\*   lines 123-128:   except CancelledError, then finally
\*   line 139:        except CancelledError: pass, the finally block goes on
\*   lines 142-147:   the exception leaves the finally block and run()
Deliver(t) ==
    /\ gt[t].must_cancel
    /\ gt[t].pc \notin Done \cup {"none"}
    /\ LET p == gt[t].pc
           g == [gt[t] EXCEPT !.must_cancel = FALSE] IN
       CASE p = "created" ->
              gt' = [gt EXCEPT ![t] = [g EXCEPT !.pc = "never_started"]] /\ tasks' = tasks
         [] p \in PreTry ->
              gt' = [gt EXCEPT ![t] = [g EXCEPT !.pc = "raised"]] /\ tasks' = Popped(t)
         [] p \in InTry ->
              gt' = [gt EXCEPT ![t] = [g EXCEPT !.pc = "fin_refresh", !.state = CANCELLED]]
              /\ tasks' = tasks
         [] p = "fin_refresh" ->
              gt' = [gt EXCEPT ![t] = [g EXCEPT !.pc = "fin_save"]] /\ tasks' = tasks
         [] OTHER ->
              gt' = [gt EXCEPT ![t] = [g EXCEPT !.pc = "raised"]] /\ tasks' = Popped(t)
    /\ UNCHANGED <<mgr, control, lastOp, status_key, config_key, all_tasks, notTaskVars>>

StopIdle == stopped_running = {}

\* what TaskManager.stop leaves alone besides the orchestrator's state
notTaskStopVars == <<bookVars, cfgVars, wsVars, frameVars, tradeVars, registryVars, loopVars, observerVars, closeVars, bookStreamVars>>
notObserverVars == <<taskVars, bookVars, cfgVars, wsVars, frameVars, tradeVars, registryVars, loopVars, stopVars, closeVars, bookStreamVars>>
notCloseVars == <<taskVars, bookVars, cfgVars, wsVars, frameVars, tradeVars, registryVars, loopVars, stopVars, observerVars, bookStreamVars>>
notWsCloseVars == <<taskVars, bookVars, cfgVars, frameVars, tradeVars, registryVars, loopVars, stopVars, observerVars, bookStreamVars>>
notBookStreamVars == <<taskVars, bookVars, cfgVars, wsVars, frameVars, tradeVars, registryVars, loopVars, stopVars, observerVars, closeVars>>

\* a pipeline of the process is running with the persisted state RUNNING
RunningNow(t) ==
    /\ t \in tasks
    /\ gt[t].pc \notin Done \cup {"none"}
    /\ status_key[t].state = RUNNING

\* TaskManager.stop, called by main() on SIGTERM / SIGINT, up to its
\* gather: _running = False and cancel() on every task of _tasks.  The
\* listener leaves its loop at the next message without handling it.
Stop ==
    /\ mgr \in {"listening", "closing", "idle"}
    /\ mgr' = "stopping"
    /\ gt' = [t \in TaskIds |-> IF t \in tasks THEN GameTask_cancel(gt[t]) ELSE gt[t]]
    /\ control' = <<>>
    /\ stopped_running' = {t \in TaskIds : RunningNow(t)}
    /\ UNCHANGED <<lastOp, status_key, config_key, all_tasks, tasks, notTaskStopVars>>

\* the gather of stop() returns once every task has ended; _tasks.clear(),
\* main() closes its resources and the process exits
StopReturn ==
    /\ mgr = "stopping"
    /\ \A t \in TaskIds : gt[t].pc \in Done \cup {"none"}
    /\ mgr' = "stopped"
    /\ tasks' = {}
    /\ gt' = [t \in TaskIds |-> NoTask]
    /\ control' = <<>>
    /\ lastOp' = "idle"
    /\ UNCHANGED <<status_key, config_key, all_tasks, stopped_running, notTaskStopVars>>

TaskStep(t) ==
    \/ StepStart(t) \/ StepLoad(t) \/ StepSaveRunning(t) \/ StepPublishRunning(t)
    \/ StepRefresh(t) \/ StepHandle(t) \/ StepPublish(t)
    \/ StreamEnd(t) \/ StreamRaise(t)
    \/ FinRefresh(t) \/ FinSave(t) \/ FinPublishStatus(t) \/ FinTaskEnd(t)
    \/ Deliver(t)

TaskNext ==
    \/ \E t \in TaskIds : RouteCreateTask(t)
    \/ \E a \in ControlActions, t \in TaskIds : PublishControl(a, t)
    \/ \E t \in TaskIds : ExpireConfig(t)
    \/ Start
    \/ Crash
    \/ HandleControl
    \/ \E t \in TaskIds : TaskStep(t)
    \/ \E t \in TaskIds, fatal \in BOOLEAN : StreamYield(t, fatal)


\* the orchestrator with clients of the subscribe route
ObserverNext ==
    \/ TaskNext
    \/ \E t \in TaskIds : SubscribeTask(t) \/ EventGenerator(t)

\* the orchestrator with the shutdown of the worker process
RestartNext == TaskNext \/ Stop \/ StopReturn

(***************************************************************************)
(* Part II: StrategyState.update_book                                      *)
(***************************************************************************)

Assets == {"YES", "NO"}     \* yes_token_id, no_token_id
Sides == {"BUY", "SELL"}

\* OrderLevel.from_raw of the levels a full-book message carries
OrderLevel == [price : 1..MaxPrice, size : 1..MaxBookSize]

\* the lists of levels a full-book message can carry for one side
RECURSIVE SeqsUpTo(_, _)
SeqsUpTo(S, n) ==
    IF n = 0 THEN {<<>>}
    ELSE LET shorter == SeqsUpTo(S, n - 1) IN
         shorter \cup {Append(q, x) : q \in {r \in shorter : Len(r) = n - 1}, x \in S}

LevelLists == SeqsUpTo(OrderLevel, MaxLevels)

PriceChange == [asset_id : Assets, side : Sides, price : 0..MaxPrice, size : 0..MaxSize]

ChangeLists == SeqsUpTo(PriceChange, MaxChanges) \ {<<>>}

Prices(levels) == {levels[i].price : i \in 1..Len(levels)}

\* level_map = {level.price: level.size for level in levels}: for a price
\* that occurs more than once the last occurrence wins
LevelMap(levels) ==
    [p \in Prices(levels) |->
        LET last == CHOOSE i \in 1..Len(levels) :
                        /\ levels[i].price = p
                        /\ \A j \in 1..Len(levels) : levels[j].price = p => j <= i
        IN levels[last].size]

\* list.sort(key=price) of the levels of a map (its prices are distinct)
RECURSIVE SortedLevels(_, _)
SortedLevels(m, descending) ==
    IF DOMAIN m = {} THEN <<>>
    ELSE LET first == CHOOSE p \in DOMAIN m :
                          \A q \in DOMAIN m : IF descending THEN q <= p ELSE p <= q
             rest == [q \in DOMAIN m \ {first} |-> m[q]]
         IN <<[price |-> first, size |-> m[first]]>> \o SortedLevels(rest, descending)

\* _apply_price_change with the size test left out: a size 0 is stored
_apply_price_change_store(levels, price, size, descending) ==
    LET level_map == LevelMap(levels)
        changed == [p \in DOMAIN level_map \cup {price} |->
                        IF p = price THEN size ELSE level_map[p]]
    IN SortedLevels(changed, descending)

\* StrategyState._apply_price_change followed by the sort of update_book
_apply_price_change(levels, price, size, descending) ==
    LET level_map == LevelMap(levels)
        changed == IF size <= 0
                   THEN [p \in DOMAIN level_map \ {price} |-> level_map[p]]
                   ELSE [p \in DOMAIN level_map \cup {price} |->
                            IF p = price THEN size ELSE level_map[p]]
    IN SortedLevels(changed, descending)

\* the four ladders as one record
Book == [yes_bids |-> yes_bids, yes_asks |-> yes_asks, no_bids |-> no_bids, no_asks |-> no_asks]

\* one entry of price_changes (lines 78-104)
ApplyChange(b, c) ==
    IF c.price <= 0 THEN b
    ELSE IF c.asset_id = "YES"
    THEN IF c.side = "BUY"
         THEN [b EXCEPT !.yes_bids = _apply_price_change(@, c.price, c.size, TRUE)]
         ELSE [b EXCEPT !.yes_asks = _apply_price_change(@, c.price, c.size, FALSE)]
    ELSE IF c.side = "BUY"
         THEN [b EXCEPT !.no_bids = _apply_price_change(@, c.price, c.size, TRUE)]
         ELSE [b EXCEPT !.no_asks = _apply_price_change(@, c.price, c.size, FALSE)]

RECURSIVE ApplyChanges(_, _)
ApplyChanges(b, cs) ==
    IF cs = <<>> THEN b ELSE ApplyChanges(ApplyChange(b, Head(cs)), Tail(cs))

\* a full-book message (lines 109-128): a side is replaced only if the
\* message carries at least one level for it
ApplyBook(b, asset_id, bid_levels, ask_levels) ==
    IF asset_id = "YES"
    THEN [b EXCEPT !.yes_bids = IF bid_levels # <<>> THEN bid_levels ELSE @,
                   !.yes_asks = IF ask_levels # <<>> THEN ask_levels ELSE @]
    ELSE [b EXCEPT !.no_bids = IF bid_levels # <<>> THEN bid_levels ELSE @,
                   !.no_asks = IF ask_levels # <<>> THEN ask_levels ELSE @]

SetBook(b) ==
    /\ yes_bids' = b.yes_bids
    /\ yes_asks' = b.yes_asks
    /\ no_bids' = b.no_bids
    /\ no_asks' = b.no_asks

\* update_book with event_type "price_change"
UpdateBookDelta(cs) ==
    /\ nmsg < MaxMsgs
    /\ nmsg' = nmsg + 1
    /\ SetBook(ApplyChanges(Book, cs))
    /\ UNCHANGED notBookVars

\* update_book with a full-book message
UpdateBookFull(asset_id, bid_levels, ask_levels) ==
    /\ nmsg < MaxMsgs
    /\ nmsg' = nmsg + 1
    /\ SetBook(ApplyBook(Book, asset_id, bid_levels, ask_levels))
    /\ UNCHANGED notBookVars

BookNext ==
    \/ \E cs \in ChangeLists : UpdateBookDelta(cs)
    \/ \E a \in Assets, bl \in LevelLists, al \in LevelLists : UpdateBookFull(a, bl, al)


\* SideData.best_bid / best_ask (None when the side is empty)
best_bid(bids) == CHOOSE p \in Prices(bids) : \A q \in Prices(bids) : q <= p
best_ask(asks) == CHOOSE p \in Prices(asks) : \A q \in Prices(asks) : p <= q

(***************************************************************************)
(* Part III: GameTask.update_config, _deep_merge_dict, TaskConfig.from_dict*)
(*                                                                         *)
(* A JSON value is an atom A(x) or a dict D(f), f a function from keys to  *)
(* JSON values.  Atoms are written as strings: "true", "false", "none"     *)
(* (None), numbers ("10"), lists ("[]", "[BUY]").                          *)
(***************************************************************************)

A(x) == [t |-> "a", v |-> x]
D(f) == [t |-> "d", v |-> f]
None == A("none")
EmptyDict == D([k \in {} |-> None])

\* isinstance(x, dict)
IsDict(x) == x.t = "d"

\* dict.get(k, default)
Get(d, k, default) == IF k \in DOMAIN d.v THEN d.v[k] ELSE default

\* Python truthiness
Truthy(x) ==
    IF IsDict(x) THEN DOMAIN x.v # {}
    ELSE x.v \notin {"none", "false", "0", "", "[]"}

\* bool(x)
Bool(x) == IF Truthy(x) THEN A("true") ELSE A("false")

\* str(x), of an atom
Str(x) == IF x = None THEN A("None") ELSE x

\* float(x), of a JSON number: the same number
Float(x) == x

\* GameTask._deep_merge_dict
RECURSIVE _deep_merge_dict(_, _)
_deep_merge_dict(base, p) ==
    D([key \in DOMAIN base.v \cup DOMAIN p.v |->
        IF key \notin DOMAIN p.v THEN base.v[key]
        ELSE IF key \in DOMAIN base.v /\ IsDict(base.v[key]) /\ IsDict(p.v[key])
             THEN _deep_merge_dict(base.v[key], p.v[key])
             ELSE p.v[key]])

\* _normalize_auto_buy: base["default"]
BaseDefault ==
    D([k \in {"amount", "round_size", "order_type", "execution_mode",
              "private_key", "proxy_address"} |->
        CASE k = "amount" -> A("10")
          [] k = "round_size" -> A("false")
          [] k = "order_type" -> A("GTC")
          [] k = "execution_mode" -> A("SIMULATION")
          [] OTHER -> None])

\* _normalize_auto_buy: base
BaseAutoBuy ==
    D([k \in {"enabled", "default", "strategy_rules"} |->
        CASE k = "enabled" -> A("false")
          [] k = "default" -> BaseDefault
          [] OTHER -> EmptyDict])

\* _normalize_auto_buy: default_cfg (lines 187-199)
NormalizeDefault(value) ==
    LET default_input == Get(value, "default", None) IN
    IF IsDict(default_input)
    THEN D([k \in DOMAIN BaseDefault.v |->
            CASE k = "amount" -> Float(Get(default_input, k, BaseDefault.v[k]))
              [] k = "round_size" -> Bool(Get(default_input, k, BaseDefault.v[k]))
              [] k = "order_type" -> Str(Get(default_input, k, BaseDefault.v[k]))
              [] k = "execution_mode" -> Str(Get(default_input, k, BaseDefault.v[k]))
              [] OTHER -> Get(default_input, k, None)])
    ELSE BaseDefault

\* _normalize_auto_buy: one rule of strategy_rules (lines 210-223)
NormalizeRule(raw_rule) ==
    LET optional == {k \in {"amount", "round_size", "order_type", "execution_mode"} :
                        Get(raw_rule, k, None) # None}
    IN D([k \in {"enabled", "side", "signal_types"} \cup optional |->
            CASE k = "enabled" -> Bool(Get(raw_rule, k, A("true")))
              [] k = "side" -> Str(Get(raw_rule, k, A("__BOTH__")))
              [] k = "signal_types" ->
                    IF Truthy(Get(raw_rule, k, None)) THEN raw_rule.v[k] ELSE A("[BUY]")
              [] k = "amount" -> Float(raw_rule.v[k])
              [] k = "round_size" -> Bool(raw_rule.v[k])
              [] OTHER -> Str(raw_rule.v[k])])

\* _normalize_auto_buy: strategy_rules (lines 201-225)
NormalizeRules(value) ==
    LET raw_rules == Get(value, "strategy_rules", None) IN
    IF IsDict(raw_rules)
    THEN D([sid \in {k \in DOMAIN raw_rules.v : k # "" /\ IsDict(raw_rules.v[k])} |->
            NormalizeRule(raw_rules.v[sid])])
    ELSE EmptyDict

\* shared/task_models.py _normalize_auto_buy
_normalize_auto_buy(value) ==
    IF ~IsDict(value) THEN BaseAutoBuy
    ELSE D([k \in {"enabled", "default", "strategy_rules"} |->
            CASE k = "enabled" -> Bool(Get(value, k, A("false")))
              [] k = "default" -> NormalizeDefault(value)
              [] OTHER -> NormalizeRules(value)])

\* the fields of TaskConfig (shared/task_models.py lines 24-52)
TaskConfigFields ==
    {"url", "poll_interval", "include_scoreboard", "include_boxscore",
     "analysis_interval", "strategy_ids", "strategy_params_map", "strategy_id",
     "strategy_params", "enable_trading", "execution_mode", "order_type",
     "order_expiration", "min_order_amount", "trade_cooldown_seconds",
     "private_key", "proxy_address", "auto_buy"}

\* TaskConfig.from_dict followed by to_dict: the dict of the new TaskConfig
from_dict(data) ==
    D([k \in TaskConfigFields |->
        CASE k = "url" -> Get(data, k, A(""))
          [] k = "poll_interval" -> Float(Get(data, k, A("10")))
          [] k = "include_scoreboard" -> Bool(Get(data, k, A("true")))
          [] k = "include_boxscore" -> Bool(Get(data, k, A("true")))
          [] k = "analysis_interval" -> Float(Get(data, k, A("30")))
          [] k = "strategy_id" -> Str(Get(data, k, A("merge_long")))
          [] k = "strategy_params" ->
                IF Truthy(Get(data, k, None)) THEN data.v[k] ELSE EmptyDict
          [] k = "enable_trading" -> Bool(Get(data, k, A("false")))
          [] k = "execution_mode" -> Str(Get(data, k, A("SIMULATION")))
          [] k = "order_type" -> Str(Get(data, k, A("GTC")))
          [] k = "min_order_amount" -> Float(Get(data, k, A("1")))
          [] k = "trade_cooldown_seconds" -> Float(Get(data, k, A("0")))
          [] k = "auto_buy" -> _normalize_auto_buy(Get(data, k, None))
          [] OTHER -> Get(data, k, None)])

\* a patch is built from at most MaxPatchFields of these (path, value) pairs
PatchFields ==
    {<<<<"enable_trading">>, "true">>, <<<<"enable_trading">>, "false">>,
     <<<<"private_key">>, "k1">>,
     <<<<"strategy_params", "min_gap">>, "1">>,
     <<<<"strategy_params", "budget">>, "5">>,
     <<<<"auto_buy", "enabled">>, "true">>,
     <<<<"auto_buy", "default", "amount">>, "5">>,
     <<<<"auto_buy", "strategy_rules", "s1", "enabled">>, "false">>,
     <<<<"auto_buy", "strategy_rules", "s1", "signal_types">>, "[SELL]">>,
     <<<<"auto_buy", "strategy_rules", "s1", "signal_types">>, "[]">>,
     <<<<"auto_sell", "enabled">>, "true">>}

\* the dict with the given (path, value) pairs as its leaves
RECURSIVE FromFields(_)
FromFields(S) ==
    D([k \in {Head(f[1]) : f \in S} |->
        LET sub == {<<Tail(f[1]), f[2]>> : f \in {g \in S : Head(g[1]) = k}} IN
        IF \E f \in sub : f[1] = <<>>
        THEN A((CHOOSE f \in sub : f[1] = <<>>)[2])
        ELSE FromFields(sub)])

Patches ==
    {FromFields(S) : S \in {T \in SUBSET PatchFields :
        /\ Cardinality(T) <= MaxPatchFields
        /\ \A f, g \in T : f[1] = g[1] => f = g}}

\* json.dumps: a dict becomes an object with the same members, None
\* becomes null, every other atom becomes its JSON literal
RECURSIVE dumps(_)
dumps(x) ==
    IF IsDict(x) THEN [json |-> "object", members |-> [k \in DOMAIN x.v |-> dumps(x.v[k])]]
    ELSE [json |-> "literal", members |-> IF x = None THEN "null" ELSE x.v]

\* json.loads
RECURSIVE loads(_)
loads(j) ==
    IF j.json = "object" THEN D([k \in DOMAIN j.members |-> loads(j.members[k])])
    ELSE IF j.members = "null" THEN None ELSE A(j.members)

\* TaskConfig.to_dict is asdict(self): config already is that dict
to_dict(c) == c

\* TaskConfig.to_json
to_json(c) == dumps(to_dict(c))

\* TaskConfig.from_json
from_json(json_str) == from_dict(loads(json_str))

\* TaskConfig(**kwargs): the dataclass keeps each argument as it is given
\* and takes the field's default (lines 24-52) for the others; the
\* defaults are the values from_dict gives for an absent key
TaskConfig(kwargs) ==
    D([k \in TaskConfigFields |-> Get(kwargs, k, from_dict(EmptyDict).v[k])])

\* keyword arguments of a direct construction: the fields only
Kwargs == {p \in Patches : DOMAIN p.v \subseteq TaskConfigFields}

NoJson == [json |-> "none", members |-> "none"]
NoConfig == EmptyDict

ConfigIdle ==
    /\ config = from_dict(EmptyDict)
    /\ patch = EmptyDict
    /\ persisted = NoJson
    /\ restored = NoConfig

\* a GameTask is constructed with the TaskConfig.from_dict of the create
\* command's config (task_manager.py line 185)
ConfigInit ==
    /\ config \in {from_dict(p) : p \in Patches}
    /\ patch = EmptyDict
    /\ persisted = NoJson
    /\ restored = NoConfig

\* any TaskConfig: one built by the constructor (as the create route does,
\* api/routes/tasks.py line 128) or by from_dict (as the worker does)
RoundTripInit ==
    /\ config \in {TaskConfig(kw) : kw \in Kwargs} \cup {from_dict(p) : p \in Patches}
    /\ patch = EmptyDict
    /\ persisted = NoJson
    /\ restored = NoConfig

\* config.to_json() is stored
ToJson ==
    /\ persisted = NoJson
    /\ persisted' = to_json(config)
    /\ UNCHANGED <<config, patch, restored, notCfgVars>>

\* TaskConfig.from_json of what was stored
FromJson ==
    /\ persisted # NoJson
    /\ restored = NoConfig
    /\ restored' = from_json(persisted)
    /\ UNCHANGED <<config, patch, persisted, notCfgVars>>

RoundTripNext == ToJson \/ FromJson

\* GameTask.update_config.  Lines 89-93 read self.config.auto_sell, which
\* the TaskConfig of shared/task_models.py does not define: the call either
\* raises there, leaving the configuration as it was, or goes on to merge
\* (lines 95-97).  The remaining lines publish state events.
update_config(p) ==
    /\ Truthy(p)
    /\ patch' = p
    /\ \/ config' = from_dict(_deep_merge_dict(config, p))
       \/ config' = config
    /\ UNCHANGED <<persisted, restored, notCfgVars>>

ConfigNext == \E p \in Patches : update_config(p)

(***************************************************************************)
(* Part IV: PolymarketWebSocketClient (polymarket/ws_client.py)            *)
(*                                                                         *)
(* Three threads: the socket thread (_run_forever and the callbacks        *)
(* _on_open, _on_close that WebSocketApp.run_forever calls on it), the     *)
(* heartbeat thread (_heartbeat_loop), and the caller's event loop thread  *)
(* (connect, subscribe, unsubscribe, close).  Their steps interleave.      *)
(***************************************************************************)

RECONNECT_BASE_DELAY == 1
RECONNECT_MAX_DELAY == 30

AssetIds == {"a", "b"}

Min(x, y) == IF x <= y THEN x ELSE y

CallerIdle == [pc |-> "idle", ids |-> {}, kind |-> "none"]

\* the socket is open: the positions of _on_open and of run_forever after it
OpenPcs == {"open_read", "open_send", "open_flag", "open_hb", "running"}

\* __init__ (lines 63-74)
WsInit ==
    /\ ws_pc = "idle"
    /\ is_connected = FALSE
    /\ subscribed_assets = {}
    /\ has_init = FALSE
    /\ reconnect_attempts = 0
    /\ delay = 0
    /\ open_msg = {}
    /\ hb = "none"
    /\ stop_hb = FALSE
    /\ caller = CallerIdle
    /\ ncalls = 0
    /\ server = {}
    /\ batched = 0
    /\ faults = 0
    /\ hb_failed = FALSE
    /\ on_error_called = FALSE

\* __init__ (line 72): _stop_reconnect is not set
CloseIdle == stop_reconnect = FALSE

\* a client of the class as written: MAX_RECONNECT_ATTEMPTS = None
WsIdle == WsInit /\ max_reconnect = [set |-> FALSE, n |-> 0]

\* a client with or without a maximum configured
WsConfigured ==
    /\ WsInit
    /\ max_reconnect \in {[set |-> FALSE, n |-> 0], [set |-> TRUE, n |-> MaxConfigured]}

\* connect (lines 76-88): _stop_reconnect is cleared and the socket thread
\* is started; it passes the test of line 108 and runs the WebSocketApp
Connect ==
    /\ ws_pc = "idle"
    /\ ws_pc' = "connecting"
    /\ stop_reconnect' = FALSE
    /\ on_error_called' = FALSE
    /\ UNCHANGED <<is_connected, subscribed_assets, has_init, reconnect_attempts,
                   delay, max_reconnect, open_msg, hb, stop_hb, caller, ncalls,
                   server, batched, faults, hb_failed, notWsCloseVars>>

\* _on_open, lines 300-304: the connection opened
OnOpen ==
    /\ ws_pc = "connecting"
    /\ ws_pc' = "open_read"
    /\ is_connected' = TRUE
    /\ reconnect_attempts' = 0
    /\ server' = {}
    /\ batched' = 0
    /\ faults' = 0
    /\ hb_failed' = FALSE
    /\ on_error_called' = FALSE
    /\ UNCHANGED <<subscribed_assets, has_init, delay, max_reconnect, open_msg,
                   hb, stop_hb, caller, ncalls, notWsVars>>

\* _on_open, lines 311-317: subscribe_msg is built from _subscribed_assets
OnOpenRead ==
    /\ ws_pc = "open_read"
    /\ ws_pc' = IF subscribed_assets # {} THEN "open_send" ELSE "open_hb"
    /\ open_msg' = subscribed_assets
    /\ on_error_called' = FALSE
    /\ UNCHANGED <<is_connected, subscribed_assets, has_init, reconnect_attempts,
                   delay, max_reconnect, hb, stop_hb, caller, ncalls, server,
                   batched, faults, hb_failed, notWsVars>>

\* _on_open, line 319: ws.send of the batched subscribe message
OnOpenSend ==
    /\ ws_pc = "open_send"
    /\ ws_pc' = "open_flag"
    /\ server' = server \cup open_msg
    /\ batched' = batched + 1
    /\ on_error_called' = FALSE
    /\ UNCHANGED <<is_connected, subscribed_assets, has_init, reconnect_attempts,
                   delay, max_reconnect, open_msg, hb, stop_hb, caller, ncalls,
                   faults, hb_failed, notWsVars>>

\* _on_open, line 320
OnOpenFlag ==
    /\ ws_pc = "open_flag"
    /\ ws_pc' = "open_hb"
    /\ has_init' = TRUE
    /\ on_error_called' = FALSE
    /\ UNCHANGED <<is_connected, subscribed_assets, reconnect_attempts, delay,
                   max_reconnect, open_msg, hb, stop_hb, caller, ncalls, server,
                   batched, faults, hb_failed, notWsVars>>

\* _on_open, lines 327-334: a heartbeat thread is started unless one is alive
OnOpenHeartbeat ==
    /\ ws_pc = "open_hb"
    /\ ws_pc' = "running"
    /\ IF hb # "alive"
       THEN stop_hb' = FALSE /\ hb' = "alive"
       ELSE UNCHANGED <<stop_hb, hb>>
    /\ on_error_called' = FALSE
    /\ UNCHANGED <<is_connected, subscribed_assets, has_init, reconnect_attempts,
                   delay, max_reconnect, open_msg, caller, ncalls, server,
                   batched, faults, hb_failed, notWsVars>>

\* the delay of _run_forever without the RECONNECT_MAX_DELAY cap
BackoffDelay_NoCap(attempts) == RECONNECT_BASE_DELAY * (2 ^ (attempts - 1))

\* the delay of _run_forever lines 133-136 for the given _reconnect_attempts
BackoffDelay(attempts) ==
    Min(RECONNECT_MAX_DELAY, RECONNECT_BASE_DELAY * (2 ^ (attempts - 1)))

\* run_forever returns (the connection failed to open, or was lost): the
\* library calls _on_error (if it saw an error) and _on_close, then
\* _run_forever lines 120-146 run up to the break of line 123 (close() has
\* set _stop_reconnect), the backoff wait or the give-up break
Fault(with_error) ==
    /\ ws_pc \in {"connecting", "running"}
    /\ reconnect_attempts < MaxAttempts
    /\ is_connected' = FALSE
    /\ has_init' = FALSE
    /\ stop_hb' = TRUE
    /\ on_error_called' = with_error
    /\ IF stop_reconnect
       THEN /\ ws_pc' = "closed"
            /\ UNCHANGED <<reconnect_attempts, faults, delay>>
       ELSE /\ reconnect_attempts' = reconnect_attempts + 1
            /\ faults' = faults + 1
            /\ IF max_reconnect.set /\ reconnect_attempts' > max_reconnect.n
               THEN ws_pc' = "gave_up" /\ delay' = delay
               ELSE ws_pc' = "backoff" /\ delay' = BackoffDelay(reconnect_attempts')
    /\ UNCHANGED <<subscribed_assets, max_reconnect, open_msg, hb, caller, ncalls,
                   server, batched, hb_failed, notWsVars>>

\* _run_forever lines 145-148 and 108: the wait timed out, the test of the
\* loop passes and a new WebSocketApp is run
BackoffEnd ==
    /\ ws_pc = "backoff"
    /\ ~stop_reconnect
    /\ ws_pc' = "connecting"
    /\ on_error_called' = FALSE
    /\ UNCHANGED <<is_connected, subscribed_assets, has_init, reconnect_attempts,
                   delay, max_reconnect, open_msg, hb, stop_hb, caller, ncalls,
                   server, batched, faults, hb_failed, notWsVars>>

\* close (lines 268-297), up to its return.  The flags are set (lines
\* 269-272) and the heartbeat thread, woken by its event, is joined.  A
\* socket thread waiting in the backoff is woken and breaks (line 145); one
\* whose connection is open has it closed by ws.close(), returns from
\* run_forever and breaks (line 123).  One that has passed the test of line
\* 108 and has not opened its connection yet is not stopped by ws.close():
\* either run_forever returns and the thread breaks, or the thread is still
\* there when join(timeout=2) gives up (lines 283-284) and close() returns.
Close ==
    /\ caller.pc = "idle"
    /\ ws_pc \notin {"idle", "closed"}
    /\ ~stop_reconnect
    /\ stop_reconnect' = TRUE
    /\ ws_pc' \in (IF ws_pc = "connecting" THEN {"closed", "connecting"} ELSE {"closed"})
    /\ is_connected' = FALSE
    /\ stop_hb' = TRUE
    /\ hb' = IF hb = "alive" THEN "exited" ELSE hb
    /\ subscribed_assets' = {}
    /\ has_init' = FALSE
    /\ on_error_called' = FALSE
    /\ UNCHANGED <<reconnect_attempts, delay, max_reconnect, open_msg, caller,
                   ncalls, server, batched, faults, hb_failed, notWsCloseVars>>

\* _heartbeat_loop, lines 415-421: one ws.send("PING"); a failed send is
\* logged and ends the loop
Heartbeat(ok) ==
    /\ hb = "alive" /\ ~stop_hb /\ is_connected
    /\ hb' = IF ok THEN hb ELSE "exited"
    /\ hb_failed' = IF ok THEN hb_failed ELSE TRUE
    /\ UNCHANGED <<ws_pc, is_connected, subscribed_assets, has_init,
                   reconnect_attempts, delay, max_reconnect, open_msg, stop_hb,
                   caller, ncalls, server, batched, faults, on_error_called,
                   notWsVars>>

\* _heartbeat_loop, line 415: the loop condition fails
HeartbeatExit ==
    /\ hb = "alive" /\ (stop_hb \/ ~is_connected)
    /\ hb' = "exited"
    /\ UNCHANGED <<ws_pc, is_connected, subscribed_assets, has_init,
                   reconnect_attempts, delay, max_reconnect, open_msg, stop_hb,
                   caller, ncalls, server, batched, faults, hb_failed,
                   on_error_called, notWsVars>>

\* subscribe, lines 180-183: the ids are merged into _subscribed_assets
SubscribeStart(ids) ==
    /\ caller.pc = "idle" /\ ncalls < MaxCalls
    /\ ws_pc # "closed"
    /\ ncalls' = ncalls + 1
    /\ subscribed_assets' = subscribed_assets \cup ids
    /\ caller' = [pc |-> "sub_check", ids |-> ids, kind |-> "none"]
    /\ UNCHANGED <<ws_pc, is_connected, has_init, reconnect_attempts, delay,
                   max_reconnect, open_msg, hb, stop_hb, server, batched, faults,
                   hb_failed, on_error_called, notWsVars>>

\* subscribe, lines 185-208: which message to send, if any
SubscribeCheck ==
    /\ caller.pc = "sub_check"
    /\ IF ~is_connected
       THEN caller' = CallerIdle /\ has_init' = has_init
       ELSE IF ~has_init
       THEN /\ caller' = [pc |-> "sub_send", ids |-> subscribed_assets, kind |-> "initial"]
            /\ has_init' = TRUE
       ELSE /\ caller' = [caller EXCEPT !.pc = "sub_send", !.kind = "incremental"]
            /\ has_init' = has_init
    /\ UNCHANGED <<ws_pc, is_connected, subscribed_assets, reconnect_attempts,
                   delay, max_reconnect, open_msg, hb, stop_hb, ncalls, server,
                   batched, faults, hb_failed, on_error_called, notWsVars>>

\* subscribe, line 211: self.ws.send; on a socket that is not open the send
\* raises and subscribe returns False (lines 221-225)
SubscribeSend ==
    /\ caller.pc = "sub_send"
    /\ caller' = CallerIdle
    /\ IF ws_pc \in OpenPcs
       THEN /\ server' = server \cup caller.ids
            /\ batched' = IF caller.kind = "initial" THEN batched + 1 ELSE batched
       ELSE UNCHANGED <<server, batched>>
    /\ UNCHANGED <<ws_pc, is_connected, subscribed_assets, has_init,
                   reconnect_attempts, delay, max_reconnect, open_msg, hb, stop_hb,
                   ncalls, faults, hb_failed, on_error_called, notWsVars>>

\* unsubscribe, lines 237-240 (not connected: _apply_unsubscribe_locally) or
\* lines 247-248 (the target of the unsubscribe message); ids = {} stands
\* for asset_ids = None
UnsubscribeStart(ids) ==
    /\ caller.pc = "idle" /\ ncalls < MaxCalls
    /\ ws_pc # "closed"
    /\ ncalls' = ncalls + 1
    /\ IF ~is_connected
       THEN /\ subscribed_assets' = IF ids # {} THEN subscribed_assets \ ids ELSE {}
            /\ caller' = caller
       ELSE /\ subscribed_assets' = subscribed_assets
            /\ caller' = [pc |-> "unsub_send", ids |-> ids, kind |-> "unsubscribe"]
    /\ UNCHANGED <<ws_pc, is_connected, has_init, reconnect_attempts, delay,
                   max_reconnect, open_msg, hb, stop_hb, server, batched, faults,
                   hb_failed, on_error_called, notWsVars>>

\* unsubscribe, lines 247-252: the message is sent; a failed send returns
\* False and leaves _subscribed_assets as it is (lines 264-266)
UnsubscribeSend ==
    /\ caller.pc = "unsub_send"
    /\ IF ws_pc \in OpenPcs
       THEN /\ server' = server \ (IF caller.ids # {} THEN caller.ids ELSE subscribed_assets)
            /\ caller' = [caller EXCEPT !.pc = "unsub_update"]
       ELSE /\ server' = server
            /\ caller' = CallerIdle
    /\ UNCHANGED <<ws_pc, is_connected, subscribed_assets, has_init,
                   reconnect_attempts, delay, max_reconnect, open_msg, hb, stop_hb,
                   ncalls, batched, faults, hb_failed, on_error_called, notWsVars>>

\* unsubscribe, lines 254-259
UnsubscribeUpdate ==
    /\ caller.pc = "unsub_update"
    /\ subscribed_assets' = IF caller.ids # {} THEN subscribed_assets \ caller.ids ELSE {}
    /\ caller' = CallerIdle
    /\ UNCHANGED <<ws_pc, is_connected, has_init, reconnect_attempts, delay,
                   max_reconnect, open_msg, hb, stop_hb, ncalls, server, batched,
                   faults, hb_failed, on_error_called, notWsVars>>

WsNext ==
    \/ Connect \/ OnOpen \/ OnOpenRead \/ OnOpenSend \/ OnOpenFlag \/ OnOpenHeartbeat
    \/ \E e \in BOOLEAN : Fault(e)
    \/ BackoffEnd \/ Close
    \/ \E ok \in BOOLEAN : Heartbeat(ok)
    \/ HeartbeatExit
    \/ \E ids \in (SUBSET AssetIds) \ {{}} : SubscribeStart(ids)
    \/ SubscribeCheck \/ SubscribeSend
    \/ \E ids \in SUBSET AssetIds : UnsubscribeStart(ids)
    \/ UnsubscribeSend \/ UnsubscribeUpdate

(***************************************************************************)
(* Part V: frames: PolymarketWebSocketClient._on_message and               *)
(* PolymarketBookStream._handle_message (polymarket/book_stream.py)        *)
(*                                                                         *)
(* A text frame is described by what _on_message looks at: the first       *)
(* character of the stripped text ("" for an empty or blank frame),        *)
(* whether json.loads accepts it, and, for a JSON object, its event_type   *)
(* ("" if it has none).  A bytes frame is decoded to text first.           *)
(***************************************************************************)

\* asyncio.Queue() of PolymarketBookStream.__init__: maxsize 0, no capacity
QueueMaxsize == 0

EventTypes == {"", "book", "price_change", "last_trade_price"}

Frames ==
    {[first |-> "", parses |-> FALSE, event_type |-> ""],
     [first |-> "P", parses |-> FALSE, event_type |-> ""],
     [first |-> "{", parses |-> FALSE, event_type |-> ""],
     [first |-> "[", parses |-> FALSE, event_type |-> ""],
     [first |-> "[", parses |-> TRUE, event_type |-> ""]}
    \cup {[first |-> "{", parses |-> TRUE, event_type |-> e] : e \in EventTypes}

\* {"raw": cleaned}
RawPayload == [kind |-> "raw", event_type |-> ""]

\* _on_message lines 355-361: the data handed to the callback
Decode(f) ==
    IF f.first \notin {"{", "["} THEN RawPayload
    ELSE IF ~f.parses THEN RawPayload
    ELSE IF f.first = "{" THEN [kind |-> "dict", event_type |-> f.event_type]
    ELSE [kind |-> "list", event_type |-> ""]

\* _handle_message lines 120-124: the message goes on to the queue.  Every
\* data but a list is a dict; a raw payload has no event_type key.
PassesFilter(data) ==
    ~(data.kind # "list" /\ data.event_type # ""
        /\ data.event_type \notin {"book", "price_change"})

\* asyncio.Queue.full
QueueFull == QueueMaxsize > 0 /\ Len(queue) >= QueueMaxsize

FrameIdle ==
    /\ rx = <<>>
    /\ scheduled = <<>>
    /\ calls = <<>>
    /\ queue = <<>>
    /\ loop_running = TRUE

\* _on_message: an empty frame is ignored (lines 350-353); the callback is
\* a coroutine function, handed to the event loop if it is running
\* (lines 365-372)
OnMessage(f) ==
    /\ Len(rx) < MaxFrames
    /\ rx' = Append(rx, f)
    /\ scheduled' = IF f.first # "" /\ loop_running
                    THEN Append(scheduled, Decode(f)) ELSE scheduled
    /\ UNCHANGED <<calls, queue, loop_running, notFrameVars>>

\* _handle_message runs on the event loop; queue.put waits while the queue
\* is full
HandleMessage ==
    /\ scheduled # <<>> /\ loop_running
    /\ PassesFilter(Head(scheduled)) => ~QueueFull
    /\ scheduled' = Tail(scheduled)
    /\ calls' = Append(calls, Head(scheduled))
    /\ queue' = IF PassesFilter(Head(scheduled)) THEN Append(queue, Head(scheduled))
                ELSE queue
    /\ UNCHANGED <<rx, loop_running, notFrameVars>>

\* the consumer: message = await queue.get()
QueueGet ==
    /\ queue # <<>> /\ loop_running
    /\ queue' = Tail(queue)
    /\ UNCHANGED <<rx, scheduled, calls, loop_running, notFrameVars>>

\* the event loop stops; the daemon socket thread goes on receiving
LoopStop ==
    /\ loop_running
    /\ loop_running' = FALSE
    /\ UNCHANGED <<rx, scheduled, calls, queue, notFrameVars>>

FrameNext ==
    \/ \E f \in Frames : OnMessage(f)
    \/ HandleMessage
    \/ QueueGet
    \/ LoopStop

(***************************************************************************)
(* Part VI: strategies (polymarket/strategies), PositionContext            *)
(* (polymarket/models.py) and StrategyExecutor (polymarket/executor.py)    *)
(*                                                                         *)
(* Numbers are exact.  A quotient is kept as the pair [n, d] of its        *)
(* numerator and denominator; d = 0 stands for None.                       *)
(***************************************************************************)

\* a best price of an empty side: None
NoPrice == -1

Rat(n, d) == [n |-> n, d |-> d]
NoneR == Rat(0, 0)

HOLD == "HOLD"
BUY == "BUY"
SELL == "SELL"

\* TradingSignal(signal_type, yes_size, no_size, yes_price, no_price)
TradingSignal(t, ys, ns, yp, np) ==
    [signal_type |-> t, yes_size |-> ys, no_size |-> ns,
     yes_price |-> yp, no_price |-> np]

Hold == TradingSignal(HOLD, NoneR, NoneR, NoneR, NoneR)

\* no generate_signal call has been made yet
NoSignal == TradingSignal("none", NoneR, NoneR, NoneR, NoneR)

\* PositionContext()
EmptyPosition ==
    [yes_size |-> 0, no_size |-> 0, yes_total_cost |-> 0, no_total_cost |-> 0,
     yes_avg_cost |-> Rat(0, 1), no_avg_cost |-> Rat(0, 1)]

NoParams == [min_arbitrage_gap |-> 0, total_budget |-> 0, target_profit |-> 0]

NoBook == [yes_bid |-> NoPrice, yes_ask |-> NoPrice, no_bid |-> NoPrice, no_ask |-> NoPrice]

\* no _execute_strategy call has returned yet
NoResult ==
    [returned |-> FALSE, success |-> FALSE, orders_placed |-> <<>>, error |-> "none",
     yes_ok |-> FALSE, no_ok |-> FALSE]

SIMULATION == "SIMULATION"
REAL == "REAL"

TradeIdle ==
    /\ order_book = NoBook
    /\ params = NoParams
    /\ position = EmptyPosition
    /\ signal = NoSignal
    /\ updates = <<>>
    /\ execution_mode = SIMULATION
    /\ result = NoResult

(***************************************************************************)
(* MergeLongStrategy.  Prices and min_arbitrage_gap are in units of 1e-7,  *)
(* total_budget in whole units of currency.                                *)
(***************************************************************************)

\* 1.0
One == 10 ^ 7

\* epsilon = 1e-6
epsilon == 10

\* a price given in hundredths
Hundredths(c) == c * (One \div 100)

\* the effective price with the opposite bid left out
effective_buy_ask(ask, opposite_bid) == ask

\* min(ask, 1.0 - opposite_bid)
effective_buy(ask, opposite_bid) == Min(ask, One - opposite_bid)

\* MergeLongStrategy.generate_signal
MergeLong_generate_signal(ob, ps) ==
    IF NoPrice \in {ob.yes_ask, ob.no_ask, ob.yes_bid, ob.no_bid} THEN Hold
    ELSE LET effective_buy_yes == effective_buy(ob.yes_ask, ob.no_bid)
             effective_buy_no == effective_buy(ob.no_ask, ob.yes_bid)
             long_cost == effective_buy_yes + effective_buy_no
             threshold == One - ps.min_arbitrage_gap
             size == Rat(ps.total_budget * One, long_cost)
         IN  IF ps.total_budget <= 0 THEN Hold
             ELSE IF long_cost > threshold + epsilon THEN Hold
             ELSE IF long_cost <= 0 THEN Hold
             ELSE TradingSignal(BUY, size, size,
                                Rat(effective_buy_yes, 1), Rat(effective_buy_no, 1))

\* the best prices and parameters one call is made with; a price is
\* positive (update_book skips a change whose price is <= 0)
BestPrices == {NoPrice} \cup {Hundredths(c) : c \in {45, 47, 50, 52, 55, 100}}

Books == [yes_bid : BestPrices, yes_ask : BestPrices, no_bid : BestPrices, no_ask : BestPrices]

MergeParams ==
    [min_arbitrage_gap : {0, Hundredths(1) \div 2, Hundredths(1), Hundredths(1) + 5,
                          Hundredths(2)},
     total_budget : {0, 10, 100},
     target_profit : {0}]

MergeInit ==
    /\ order_book \in Books
    /\ params \in MergeParams
    /\ position = EmptyPosition
    /\ signal = NoSignal
    /\ updates = <<>> /\ execution_mode = SIMULATION /\ result = NoResult

\* one call of generate_signal
MergeGenerate ==
    /\ signal = NoSignal
    /\ signal' = MergeLong_generate_signal(order_book, params)
    /\ UNCHANGED <<order_book, params, position, updates, execution_mode, result,
                   notTradeVars>>

(***************************************************************************)
(* LockedProfitStrategy.  Prices, costs and target_profit are in           *)
(* thousandths, sizes in whole shares; a quantity to buy is a quotient.    *)
(***************************************************************************)

\* settle = 1.0
Settle == 1000

\* Portfolio.from_position_context
Portfolio(pos) ==
    [q_yes |-> pos.yes_size, q_no |-> pos.no_size,
     net_cost |-> pos.yes_total_cost + pos.no_total_cost]

\* Portfolio.profit
profit(port, winner) ==
    (IF winner = "YES" THEN port.q_yes ELSE port.q_no) * Settle - port.net_cost

\* x <= y, x < y for quotients with positive denominators
RatLe(x, y) == x.n * y.d <= y.n * x.d
RatLt(x, y) == x.n * y.d < y.n * x.d

\* the lower bound with the price in place of settle - p
lower_by_price(target_profit, profit_side, p) == Rat(target_profit - profit_side, p)

\* lower = (target_profit - profit_side) / (settle - p)
lower(target_profit, profit_side, p) == Rat(target_profit - profit_side, Settle - p)

\* min_buy_qty_for_target_profit without its feasibility test
min_buy_qty_unchecked(port, side_to_buy, raw_ask, target_profit) ==
    IF raw_ask >= Settle THEN NoneR
    ELSE LET low == lower(target_profit, profit(port, side_to_buy), raw_ask)
         IN  IF RatLe(low, Rat(0, 1)) THEN Rat(0, 1) ELSE low

\* min_buy_qty_for_target_profit (raw_ask > 0); None when not feasible
min_buy_qty_for_target_profit(port, side_to_buy, raw_ask, target_profit) ==
    IF raw_ask >= Settle THEN NoneR
    ELSE LET other == IF side_to_buy = "YES" THEN "NO" ELSE "YES"
             low == lower(target_profit, profit(port, side_to_buy), raw_ask)
             upper == Rat(profit(port, other) - target_profit, raw_ask)
             x_min == IF RatLe(low, Rat(0, 1)) THEN Rat(0, 1) ELSE low
         IN  IF RatLt(upper, x_min) THEN NoneR ELSE x_min

\* PositionContext.has_position
has_position(pos) == pos.yes_size > 0 \/ pos.no_size > 0

\* LockedProfitStrategy.generate_signal
LockedProfit_generate_signal(ob, pos, ps) ==
    LET port == Portfolio(pos)
        profit_yes_wins == profit(port, "YES")
        profit_no_wins == profit(port, "NO")
        target == ps.target_profit
        side_to_buy == IF profit_yes_wins < profit_no_wins THEN "YES" ELSE "NO"
        raw_ask == IF side_to_buy = "YES" THEN ob.yes_ask ELSE ob.no_ask
        min_qty == min_buy_qty_for_target_profit(port, side_to_buy, raw_ask, target)
    IN  IF ~has_position(pos) THEN Hold
        ELSE IF profit_yes_wins >= target /\ profit_no_wins >= target THEN Hold
        ELSE IF raw_ask = NoPrice THEN Hold
        ELSE IF min_qty = NoneR THEN Hold
        ELSE IF RatLt(min_qty, Rat(1, 100)) THEN Hold
        ELSE IF side_to_buy = "YES"
             THEN TradingSignal(BUY, min_qty, NoneR, Rat(raw_ask, 1), NoneR)
             ELSE TradingSignal(BUY, NoneR, min_qty, NoneR, Rat(raw_ask, 1))

\* the positions, asks and targets one call is made with; a side of size 0
\* has total cost 0
SidePositions == {<<0, 0>>, <<5, 1000>>, <<5, 4000>>, <<11, 1000>>}

Positions ==
    {[yes_size |-> y[1], no_size |-> n[1], yes_total_cost |-> y[2], no_total_cost |-> n[2],
      yes_avg_cost |-> IF y[1] = 0 THEN Rat(0, 1) ELSE Rat(y[2], y[1]),
      no_avg_cost |-> IF n[1] = 0 THEN Rat(0, 1) ELSE Rat(n[2], n[1])]
        : y \in SidePositions, n \in SidePositions}

Asks == {NoPrice, 10, 480, 500, 990, 1000, 1200}

LockedInit ==
    /\ order_book \in [yes_bid : {NoPrice}, yes_ask : Asks, no_bid : {NoPrice}, no_ask : Asks]
    /\ params \in [min_arbitrage_gap : {0}, total_budget : {0},
                   target_profit : {-1000, 0, 1, 1000, 10000}]
    /\ position \in Positions
    /\ signal = NoSignal
    /\ updates = <<>> /\ execution_mode = SIMULATION /\ result = NoResult

\* one call of generate_signal
LockedGenerate ==
    /\ signal = NoSignal
    /\ signal' = LockedProfit_generate_signal(order_book, position, params)
    /\ UNCHANGED <<order_book, params, position, updates, execution_mode, result,
                   notTradeVars>>

(***************************************************************************)
(* PositionContext.update_position.  Sizes are in halves of a share,       *)
(* prices in thousandths, total_cost in their product.                     *)
(***************************************************************************)

MaxUpdates == 3     \* update_position calls on one position
MaxTradeSize == 2   \* sizes of one update are 0..MaxTradeSize

\* the new average with the cost held before the buy left out
avg_cost_of_last_buy(total_cost, size, bought, price) ==
    IF size + bought > 0 THEN Rat(bought * price, size + bought) ELSE Rat(0, 1)

\* new_cost / new_size if new_size > 0 else 0
avg_cost_after_buy(total_cost, size, bought, price) ==
    IF size + bought > 0 THEN Rat(total_cost + bought * price, size + bought)
    ELSE Rat(0, 1)

\* the new size of a sell without the floor at 0
size_after_sell_unfloored(size, sold) == size - sold

\* max(0, size - sold)
size_after_sell(size, sold) == IF size - sold > 0 THEN size - sold ELSE 0

\* PositionContext.update_position
update_position(pos, side, size, price, is_buy) ==
    IF side = "YES"
    THEN IF is_buy
         THEN [pos EXCEPT
                 !.yes_total_cost = pos.yes_total_cost + size * price,
                 !.yes_size = pos.yes_size + size,
                 !.yes_avg_cost = avg_cost_after_buy(pos.yes_total_cost, pos.yes_size,
                                                     size, price)]
         ELSE LET new_size == size_after_sell(pos.yes_size, size) IN
              IF new_size = 0
              THEN [pos EXCEPT !.yes_size = 0, !.yes_total_cost = 0,
                               !.yes_avg_cost = Rat(0, 1)]
              ELSE [pos EXCEPT !.yes_size = new_size]
    ELSE IF side = "NO"
    THEN IF is_buy
         THEN [pos EXCEPT
                 !.no_total_cost = pos.no_total_cost + size * price,
                 !.no_size = pos.no_size + size,
                 !.no_avg_cost = avg_cost_after_buy(pos.no_total_cost, pos.no_size,
                                                    size, price)]
         ELSE LET new_size == size_after_sell(pos.no_size, size) IN
              IF new_size = 0
              THEN [pos EXCEPT !.no_size = 0, !.no_total_cost = 0,
                               !.no_avg_cost = Rat(0, 1)]
              ELSE [pos EXCEPT !.no_size = new_size]
    ELSE pos

TradePrices == {480, 500}

\* one update_position call
UpdatePosition(side, size, price, is_buy) ==
    /\ Len(updates) < MaxUpdates
    /\ position' = update_position(position, side, size, price, is_buy)
    /\ updates' = Append(updates, [side |-> side, size |-> size, price |-> price,
                                   is_buy |-> is_buy])
    /\ UNCHANGED <<order_book, params, signal, execution_mode, result, notTradeVars>>

PositionNext ==
    \E side \in {"YES", "NO"}, size \in 0..MaxTradeSize, price \in TradePrices,
       is_buy \in BOOLEAN : UpdatePosition(side, size, price, is_buy)

(***************************************************************************)
(* StrategyExecutor._execute_strategy, from the signal generate_signal     *)
(* returned.  Sizes and prices of a signal are whole numbers k, kept as    *)
(* Rat(k, 1), in the units of update_position.                             *)
(***************************************************************************)

\* ExecutorConfig.min_order_amount = 1.0, in halves of a share
min_order_amount == 2

\* Python truth of an Optional[float]
IsNonZero(x) == x.d # 0 /\ x.n # 0

\* validate_signal without the holdings test of a SELL
validate_signal_buy_only(sig, pos) ==
    IF sig.signal_type = BUY /\ IsNonZero(sig.yes_size) /\ sig.yes_size.n > 0
          /\ sig.yes_price = NoneR
    THEN [valid |-> FALSE, reason |-> "BUY YES no price"]
    ELSE IF sig.signal_type = BUY /\ IsNonZero(sig.no_size) /\ sig.no_size.n > 0
          /\ sig.no_price = NoneR
    THEN [valid |-> FALSE, reason |-> "BUY NO no price"]
    ELSE [valid |-> TRUE, reason |-> "ok"]

\* BaseStrategy.validate_signal
validate_signal(sig, pos) ==
    IF sig.signal_type = HOLD THEN [valid |-> TRUE, reason |-> "ok"]
    ELSE IF sig.signal_type = BUY /\ IsNonZero(sig.yes_size) /\ sig.yes_size.n > 0
          /\ sig.yes_price = NoneR
    THEN [valid |-> FALSE, reason |-> "BUY YES no price"]
    ELSE IF sig.signal_type = BUY /\ IsNonZero(sig.no_size) /\ sig.no_size.n > 0
          /\ sig.no_price = NoneR
    THEN [valid |-> FALSE, reason |-> "BUY NO no price"]
    ELSE IF sig.signal_type = SELL /\ IsNonZero(sig.yes_size) /\ sig.yes_size.n > 0
          /\ pos.yes_size < sig.yes_size.n
    THEN [valid |-> FALSE, reason |-> "YES holdings"]
    ELSE IF sig.signal_type = SELL /\ IsNonZero(sig.no_size) /\ sig.no_size.n > 0
          /\ pos.no_size < sig.no_size.n
    THEN [valid |-> FALSE, reason |-> "NO holdings"]
    ELSE [valid |-> TRUE, reason |-> "ok"]

\* the state of _execute_signal between its legs: the position, the records
\* and the error of an early return ("none" while it goes on)
ExecState(pos, orders, error) == [position |-> pos, orders_placed |-> orders, error |-> error]

\* one leg of _execute_signal that returns when the order call fails
ExecuteLegOrReturn(st, leg, side, size, price, mode, ok) ==
    IF st.error # "none" \/ ~(IsNonZero(size) /\ size.n >= min_order_amount) THEN st
    ELSE IF price = NoneR THEN [st EXCEPT !.error = leg \o " no price"]
    ELSE LET order_info == [leg |-> leg, side |-> side, size |-> size.n, price |-> price.n]
             record(status, err) == [order_info |-> order_info, status |-> status, error |-> err]
             updated == update_position(st.position, leg, size.n, price.n, side = BUY)
         IN  IF mode = SIMULATION
             THEN ExecState(updated, Append(st.orders_placed, record("SIMULATED", FALSE)), "none")
             ELSE IF ok
             THEN ExecState(updated, Append(st.orders_placed, record("SUBMITTED", FALSE)), "none")
             ELSE ExecState(st.position, Append(st.orders_placed, record("FAILED", TRUE)),
                            "order failed")

\* one leg of _execute_signal (lines 414-458 for YES, 461-505 for NO); ok is the
\* outcome of create_polymarket_order
ExecuteLeg(st, leg, side, size, price, mode, ok) ==
    IF st.error # "none" \/ ~(IsNonZero(size) /\ size.n >= min_order_amount) THEN st
    ELSE IF price = NoneR THEN [st EXCEPT !.error = leg \o " no price"]
    ELSE LET order_info == [leg |-> leg, side |-> side, size |-> size.n, price |-> price.n]
             record(status, err) == [order_info |-> order_info, status |-> status, error |-> err]
             updated == update_position(st.position, leg, size.n, price.n, side = BUY)
         IN  IF mode = SIMULATION
             THEN ExecState(updated, Append(st.orders_placed, record("SIMULATED", FALSE)), "none")
             ELSE IF ok
             THEN ExecState(updated, Append(st.orders_placed, record("SUBMITTED", FALSE)), "none")
             ELSE ExecState(st.position, Append(st.orders_placed, record("FAILED", TRUE)), "none")

\* StrategyExecutor._execute_signal
_execute_signal(sig, pos, mode, yes_ok, no_ok) ==
    LET side == IF sig.signal_type = BUY THEN BUY ELSE SELL
        st0 == ExecState(pos, <<>>, "none")
        st1 == ExecuteLeg(st0, "YES", side, sig.yes_size, sig.yes_price, mode, yes_ok)
        st2 == ExecuteLeg(st1, "NO", side, sig.no_size, sig.no_price, mode, no_ok)
    IN  [position |-> st2.position,
         result |-> [returned |-> TRUE,
                     success |-> st2.error = "none"
                                   /\ \A i \in 1..Len(st2.orders_placed) :
                                         st2.orders_placed[i].status # "FAILED",
                     orders_placed |-> st2.orders_placed,
                     error |-> st2.error]]

\* StrategyExecutor._execute_strategy, after generate_signal
_execute_strategy(sig, pos, mode, yes_ok, no_ok) ==
    IF sig.signal_type = HOLD
    THEN [position |-> pos,
          result |-> [returned |-> TRUE, success |-> TRUE, orders_placed |-> <<>>,
                      error |-> "none"]]
    ELSE IF ~validate_signal(sig, pos).valid
    THEN [position |-> pos,
          result |-> [returned |-> TRUE, success |-> FALSE, orders_placed |-> <<>>,
                      error |-> validate_signal(sig, pos).reason]]
    ELSE _execute_signal(sig, pos, mode, yes_ok, no_ok)

\* the signals a strategy can return, the positions and modes of one call
SignalSizes == {NoneR} \cup {Rat(k, 1) : k \in {0, 1, 2, 4}}

Signals ==
    {TradingSignal(t, ys, ns, yp, np) :
        t \in {HOLD, BUY, SELL}, ys \in SignalSizes, ns \in SignalSizes,
        yp \in {NoneR, Rat(480, 1)}, np \in {NoneR, Rat(500, 1)}}

HeldPositions ==
    {EmptyPosition,
     update_position(EmptyPosition, "YES", 4, 500, TRUE),
     update_position(update_position(EmptyPosition, "YES", 2, 500, TRUE), "NO", 2, 480, TRUE)}

ExecInit ==
    /\ order_book = NoBook
    /\ params = NoParams
    /\ position \in HeldPositions
    /\ signal \in Signals
    /\ updates = <<>>
    /\ execution_mode \in {SIMULATION, REAL}
    /\ result = NoResult

\* one _execute_strategy call; yes_ok and no_ok are the outcomes of the
\* order calls it makes, kept with the result
Execute(yes_ok, no_ok) ==
    /\ ~result.returned
    /\ LET r == _execute_strategy(signal, position, execution_mode, yes_ok, no_ok) IN
         /\ position' = r.position
         /\ result' = r.result @@ [yes_ok |-> yes_ok, no_ok |-> no_ok]
    /\ UNCHANGED <<order_book, params, signal, updates, execution_mode, notTradeVars>>

ExecNext == \E yes_ok \in BOOLEAN, no_ok \in BOOLEAN : Execute(yes_ok, no_ok)

(***************************************************************************)
(* Part VII: the objects of a pipeline                                     *)
(*                                                                         *)
(* Objects are told apart by identity: an object is the rank at which it   *)
(* was constructed in the process, and NoObject stands for None.           *)
(***************************************************************************)
NoObject == 0

\* the tasks whose streams run in the one process
StreamTasks == {"a", "b"}

\* StrategyRegistry._strategies once the strategy modules are imported
_strategies == {"merge_long", "locked_profit"}

\* the strategy_id a task configuration may carry
StrategyIds == _strategies \cup {"unknown"}

NoStream ==
    [strategy_id |-> "none", state |-> NoObject, position |-> NoObject,
     strategy |-> NoObject]

RegistryIdle ==
    /\ _instances = [s \in _strategies |-> NoObject]
    /\ objects = 0
    /\ streams = [t \in StreamTasks |-> NoStream]

\* a StrategyState whose position is one object made with the class
StrategyStateClassPosition(strategy_id, n) ==
    [strategy_id |-> strategy_id, state |-> n + 1, position |-> MaxObjects + 1,
     strategy |-> NoObject]

\* StrategyState(...): the state object, which holds the four book lists,
\* and the PositionContext its __post_init__ constructs; n objects exist
StrategyState(strategy_id, n) ==
    [strategy_id |-> strategy_id, state |-> n + 1, position |-> n + 2,
     strategy |-> NoObject]

\* StrategyRegistry.get: the cached instance, or a new one that is cached
get(strategy_id) ==
    IF strategy_id \in _strategies /\ _instances[strategy_id] # NoObject
    THEN [instance |-> _instances[strategy_id], instances |-> _instances,
          objects |-> objects]
    ELSE IF strategy_id \notin _strategies
    THEN [instance |-> NoObject, instances |-> _instances, objects |-> objects]
    ELSE [instance |-> objects + 1,
          instances |-> [_instances EXCEPT ![strategy_id] = objects + 1],
          objects |-> objects + 1]

\* create_stream builds the StrategyState of task t's stream
CreateStream(t, strategy_id) ==
    /\ objects + 2 <= MaxObjects
    /\ streams' = [streams EXCEPT ![t] = StrategyState(strategy_id, objects)]
    /\ objects' = objects + 2
    /\ UNCHANGED <<_instances, notRegistryVars>>

\* _execute_strategy of task t's stream: the strategy comes from the registry
StreamExecuteStrategy(t) ==
    /\ streams[t].state # NoObject
    /\ LET r == get(streams[t].strategy_id) IN
         /\ r.objects <= MaxObjects
         /\ _instances' = r.instances
         /\ objects' = r.objects
         /\ streams' = [streams EXCEPT ![t].strategy = r.instance]
    /\ UNCHANGED notRegistryVars

RegistryNext ==
    \E t \in StreamTasks :
        \/ \E strategy_id \in StrategyIds : CreateStream(t, strategy_id)
        \/ StreamExecuteStrategy(t)

(***************************************************************************)
(* Part VIII: StrategyExecutor._handle_message                             *)
(*                                                                         *)
(* A message carries event_type, asset_id ("none" when absent), bids and   *)
(* asks (lists of levels) and price (0 when absent); prices are ticks.     *)
(***************************************************************************)
ExecutorMessages ==
    [event_type : {"book", "price_change", "last_trade_price", "tick_size_change"},
     asset_id : Assets \cup {"none"},
     bids : SeqsUpTo(OrderLevel, 1),
     asks : SeqsUpTo(OrderLevel, 1),
     price : 0..1]

NotHandled == [processed |-> FALSE, snapshot |-> FALSE, strategy |-> FALSE]

LoopIdle ==
    /\ cache = [_yes_bids |-> <<>>, _yes_asks |-> <<>>, _no_bids |-> <<>>,
                _no_asks |-> <<>>, _yes_price |-> 0, _no_price |-> 0]
    /\ handled = 0
    /\ last_handled = NotHandled

\* StrategyExecutor._update_order_book
_update_order_book(c, message) ==
    IF message.asset_id = "YES"
    THEN [c EXCEPT !._yes_bids = IF message.bids # <<>> THEN message.bids ELSE @,
                   !._yes_asks = IF message.asks # <<>> THEN message.asks ELSE @,
                   !._yes_price = IF message.price > 0 THEN message.price ELSE @]
    ELSE IF message.asset_id = "NO"
    THEN [c EXCEPT !._no_bids = IF message.bids # <<>> THEN message.bids ELSE @,
                   !._no_asks = IF message.asks # <<>> THEN message.asks ELSE @,
                   !._no_price = IF message.price > 0 THEN message.price ELSE @]
    ELSE c

\* StrategyExecutor._build_snapshot: whether it returns a snapshot
_build_snapshot(c) == ~(c._yes_price = 0 /\ c._no_price = 0)

\* one _handle_message call; _execute_strategy runs whenever a snapshot is
\* built
ExecutorHandleMessage(message) ==
    /\ handled < MaxHandled
    /\ handled' = handled + 1
    /\ IF message.event_type \notin {"book", "price_change", "last_trade_price"}
       THEN /\ cache' = cache
            /\ last_handled' = NotHandled
       ELSE /\ cache' = _update_order_book(cache, message)
            /\ last_handled' = [processed |-> TRUE,
                                snapshot |-> _build_snapshot(cache'),
                                strategy |-> _build_snapshot(cache')]
    /\ UNCHANGED notLoopVars

LoopNext == \E message \in ExecutorMessages : ExecutorHandleMessage(message)

(***************************************************************************)
(* Part IX: PolymarketBookStream (polymarket/book_stream.py)               *)
(*                                                                         *)
(* The stream's start() and close() run on the event loop; every client    *)
(* start() creates has a socket thread of its own (_run_forever), which    *)
(* goes on whether or not the stream still refers to the client.  All      *)
(* clients are given the stream's _handle_message, which puts on _queue.   *)
(***************************************************************************)

ClientIds == 1..MaxClients

NoClient == 0

\* a client that has not been constructed: no socket thread
NoTransport ==
    [pc |-> "none", is_connected |-> FALSE, subscribed |-> FALSE,
     stop_reconnect |-> FALSE]

\* PolymarketBookStream.__init__ (lines 22-26)
StreamIdle ==
    /\ clients = [c \in ClientIds |-> NoTransport]
    /\ _client = NoClient
    /\ _is_ready = FALSE
    /\ start_call = "idle"
    /\ last_start = "none"
    /\ feeders = {}

\* the clients whose socket thread is connecting, connected or waiting to
\* reconnect
LiveClients == {c \in ClientIds : clients[c].pc \in {"connecting", "open", "backoff"}}

\* start (lines 32-54) with a non-empty asset_ids, up to the wait of
\* connect(): a ready client is subscribed to; otherwise a new client is
\* constructed, assigned to _client, and its socket thread is started
StreamStart ==
    /\ start_call = "idle"
    /\ IF _client # NoClient /\ _is_ready
       THEN /\ clients' = [clients EXCEPT ![_client].subscribed = TRUE]
            /\ last_start' = "ok"
            /\ UNCHANGED <<_client, _is_ready, start_call>>
       ELSE /\ \E c \in ClientIds :
                /\ clients[c].pc = "none"
                /\ \A d \in ClientIds : clients[d].pc = "none" => c <= d
                /\ clients' = [clients EXCEPT ![c].pc = "connecting"]
                /\ _client' = c
            /\ start_call' = "connecting"
            /\ UNCHANGED <<_is_ready, last_start>>
    /\ UNCHANGED <<feeders, notBookStreamVars>>

\* connect lines 90-99 and start lines 54-62: the wait for
\* _connection_ready is over (the event was set, or the 10 s passed);
\* connect() answers with is_connected, and start() returns False or marks
\* the stream ready and subscribes
StreamStartReturn ==
    /\ start_call = "connecting"
    /\ start_call' = "idle"
    /\ IF ~clients[_client].is_connected
       THEN /\ last_start' = "timed_out"
            /\ UNCHANGED <<clients, _is_ready>>
       ELSE /\ last_start' = "ok"
            /\ _is_ready' = TRUE
            /\ clients' = [clients EXCEPT ![_client].subscribed = TRUE]
    /\ UNCHANGED <<_client, feeders, notBookStreamVars>>

\* PolymarketBookStream.close (lines 64-69) with the client's close()
\* (ws_client.py lines 268-297): a socket thread that has not opened its
\* connection yet may outlive the call
StreamClose ==
    /\ start_call = "idle"
    /\ _client # NoClient
    /\ \E pc \in (IF clients[_client].pc = "connecting"
                   THEN {"closed", "connecting"} ELSE {"closed"}) :
           clients' = [clients EXCEPT ![_client] =
                          [pc |-> pc, is_connected |-> FALSE, subscribed |-> FALSE,
                           stop_reconnect |-> TRUE]]
    /\ _client' = NoClient
    /\ _is_ready' = FALSE
    /\ UNCHANGED <<start_call, last_start, feeders, notBookStreamVars>>

\* _on_open (ws_client.py lines 299-304) on the socket thread of client c
ClientOnOpen(c) ==
    /\ clients[c].pc = "connecting"
    /\ clients' = [clients EXCEPT ![c].pc = "open", ![c].is_connected = TRUE]
    /\ UNCHANGED <<_client, _is_ready, start_call, last_start, feeders,
                   notBookStreamVars>>

\* run_forever returns on the socket thread of client c (_run_forever lines
\* 120-146): it breaks if close() has set _stop_reconnect, else it waits to
\* reconnect (MAX_RECONNECT_ATTEMPTS is None)
ClientFault(c) ==
    /\ clients[c].pc \in {"connecting", "open"}
    /\ clients' = [clients EXCEPT
                      ![c].pc = IF clients[c].stop_reconnect THEN "closed" ELSE "backoff",
                      ![c].is_connected = FALSE]
    /\ UNCHANGED <<_client, _is_ready, start_call, last_start, feeders,
                   notBookStreamVars>>

\* _run_forever lines 145-148 and 108 on the socket thread of client c
ClientBackoffEnd(c) ==
    /\ clients[c].pc = "backoff"
    /\ ~clients[c].stop_reconnect
    /\ clients' = [clients EXCEPT ![c].pc = "connecting"]
    /\ UNCHANGED <<_client, _is_ready, start_call, last_start, feeders,
                   notBookStreamVars>>

\* a frame arrives on the open connection of client c (a book message, or
\* the reply to a PING): _on_message hands it to the stream's
\* _handle_message (book_stream.py lines 119-125), which puts it on _queue
ClientOnMessage(c) ==
    /\ clients[c].pc = "open"
    /\ feeders' = feeders \cup {c}
    /\ UNCHANGED <<clients, _client, _is_ready, start_call, last_start,
                   notBookStreamVars>>

BookStreamNext ==
    \/ StreamStart \/ StreamStartReturn \/ StreamClose
    \/ \E c \in ClientIds :
          ClientOnOpen(c) \/ ClientFault(c) \/ ClientBackoffEnd(c) \/ ClientOnMessage(c)

(***************************************************************************)
(* Specifications                                                          *)
(***************************************************************************)

\* the orchestrator from construction; no book message, no patch
InitTask == TaskInit /\ BookIdle /\ ConfigIdle /\ WsIdle /\ FrameIdle /\ TradeIdle /\ RegistryIdle /\ LoopIdle /\ StopIdle /\ ObserverIdle /\ CloseIdle /\ StreamIdle

TaskSpec == InitTask /\ [][TaskNext]_vars

\* one StrategyState from construction
InitBook == TaskInit /\ BookIdle /\ ConfigIdle /\ WsIdle /\ FrameIdle /\ TradeIdle /\ RegistryIdle /\ LoopIdle /\ StopIdle /\ ObserverIdle /\ CloseIdle /\ StreamIdle

BookSpec == InitBook /\ [][BookNext]_vars

\* a cache filled by full-book messages, then one price_change entry
InitDelta ==
    /\ TaskInit /\ ConfigIdle /\ WsIdle /\ FrameIdle /\ TradeIdle /\ RegistryIdle /\ LoopIdle /\ StopIdle /\ ObserverIdle /\ CloseIdle /\ StreamIdle
    /\ yes_bids \in LevelLists /\ yes_asks \in LevelLists
    /\ no_bids \in LevelLists /\ no_asks \in LevelLists
    /\ nmsg = 0

\* update_book with a price_change message of one entry, applied once
OneDelta(c) == nmsg = 0 /\ UpdateBookDelta(<<c>>)

DeltaNext == \E c \in PriceChange : OneDelta(c)

DeltaSpec == InitDelta /\ [][DeltaNext]_vars

\* one GameTask constructed with a configuration
InitConfig == TaskInit /\ BookIdle /\ ConfigInit /\ WsIdle /\ FrameIdle /\ TradeIdle /\ RegistryIdle /\ LoopIdle /\ StopIdle /\ ObserverIdle /\ CloseIdle /\ StreamIdle

ConfigSpec == InitConfig /\ [][ConfigNext]_vars

\* one PolymarketWebSocketClient from construction
InitWs == TaskInit /\ BookIdle /\ ConfigIdle /\ WsConfigured /\ FrameIdle /\ TradeIdle /\ RegistryIdle /\ LoopIdle /\ StopIdle /\ ObserverIdle /\ CloseIdle /\ StreamIdle

WsSpec == InitWs /\ [][WsNext]_vars

\* one PolymarketBookStream from construction, its client connected
InitFrame == TaskInit /\ BookIdle /\ ConfigIdle /\ WsIdle /\ FrameIdle /\ TradeIdle /\ RegistryIdle /\ LoopIdle /\ StopIdle /\ ObserverIdle /\ CloseIdle /\ StreamIdle

FrameSpec == InitFrame /\ [][FrameNext]_vars

\* one MergeLongStrategy.generate_signal call on any book and parameters
InitMerge == TaskInit /\ BookIdle /\ ConfigIdle /\ WsIdle /\ FrameIdle /\ MergeInit /\ RegistryIdle /\ LoopIdle /\ StopIdle /\ ObserverIdle /\ CloseIdle /\ StreamIdle

MergeSpec == InitMerge /\ [][MergeGenerate]_vars

\* one LockedProfitStrategy.generate_signal call on any position and asks
InitLocked == TaskInit /\ BookIdle /\ ConfigIdle /\ WsIdle /\ FrameIdle /\ LockedInit /\ RegistryIdle /\ LoopIdle /\ StopIdle /\ ObserverIdle /\ CloseIdle /\ StreamIdle

LockedSpec == InitLocked /\ [][LockedGenerate]_vars

\* update_position calls on a PositionContext from construction
InitPosition == TaskInit /\ BookIdle /\ ConfigIdle /\ WsIdle /\ FrameIdle /\ TradeIdle /\ RegistryIdle /\ LoopIdle /\ StopIdle /\ ObserverIdle /\ CloseIdle /\ StreamIdle

PositionSpec == InitPosition /\ [][PositionNext]_vars

\* one StrategyExecutor._execute_strategy call on any signal
InitExec == TaskInit /\ BookIdle /\ ConfigIdle /\ WsIdle /\ FrameIdle /\ ExecInit /\ RegistryIdle /\ LoopIdle /\ StopIdle /\ ObserverIdle /\ CloseIdle /\ StreamIdle

ExecSpec == InitExec /\ [][ExecNext]_vars

\* one TaskConfig is written with to_json and read back with from_json
InitRoundTrip == TaskInit /\ BookIdle /\ RoundTripInit /\ WsIdle /\ FrameIdle /\ TradeIdle /\ RegistryIdle /\ LoopIdle /\ StopIdle /\ ObserverIdle /\ CloseIdle /\ StreamIdle

RoundTripSpec == InitRoundTrip /\ [][RoundTripNext]_vars

\* the orchestrator over worker processes that crash or are shut down
InitRestart == TaskInit /\ BookIdle /\ ConfigIdle /\ WsIdle /\ FrameIdle /\ TradeIdle /\ RegistryIdle /\ LoopIdle /\ StopIdle /\ ObserverIdle /\ CloseIdle /\ StreamIdle

RestartSpec == InitRestart /\ [][RestartNext]_vars

\* the orchestrator and one subscribe_task request per task
InitObserver == TaskInit /\ BookIdle /\ ConfigIdle /\ WsIdle /\ FrameIdle /\ TradeIdle /\ RegistryIdle /\ LoopIdle /\ StopIdle /\ ObserverIdle /\ CloseIdle /\ StreamIdle

ObserverSpec == InitObserver /\ [][ObserverNext]_vars

\* the message loop of one StrategyExecutor from construction
InitLoop == TaskInit /\ BookIdle /\ ConfigIdle /\ WsIdle /\ FrameIdle /\ TradeIdle /\ RegistryIdle /\ LoopIdle /\ StopIdle /\ ObserverIdle /\ CloseIdle /\ StreamIdle

LoopSpec == InitLoop /\ [][LoopNext]_vars

\* the streams of two tasks in one process
InitRegistry == TaskInit /\ BookIdle /\ ConfigIdle /\ WsIdle /\ FrameIdle /\ TradeIdle /\ RegistryIdle /\ LoopIdle /\ StopIdle /\ ObserverIdle /\ CloseIdle /\ StreamIdle

RegistrySpec == InitRegistry /\ [][RegistryNext]_vars

\* one book stream and the clients it creates
InitBookStream == TaskInit /\ BookIdle /\ ConfigIdle /\ WsIdle /\ FrameIdle /\ TradeIdle /\ RegistryIdle /\ LoopIdle /\ StopIdle /\ ObserverIdle /\ CloseIdle /\ StreamIdle

BookStreamSpec == InitBookStream /\ [][BookStreamNext]_vars

(***************************************************************************)
(* Claims about the task orchestrator (checked under TaskSpec)             *)
(***************************************************************************)

\* C1: every run() that was started and has ended (returned, raised or was
\* cancelled, at whatever await) has published exactly one task_end event.
C1_TaskEndExactlyOnce ==
    \A t \in TaskIds : gt[t].pc \in Ended => gt[t].ends = 1

\* C2: the persisted state only moves PENDING -> RUNNING -> terminal (a
\* record may be created as PENDING, or as RUNNING by a run that created its
\* status PENDING in memory), and a persisted terminal state never changes.
C2_StateMachine ==
    [][\A t \in TaskIds :
          LET a == status_key[t].state
              b == status_key'[t].state
          IN \/ a = b
             \/ a = "none" /\ b \in {PENDING, RUNNING}
             \/ a = PENDING /\ b = RUNNING
             \/ a = RUNNING /\ b \in Terminal]_vars

\* C3: whenever a pipeline of the live worker has stopped running, the
\* persisted status holds a terminal state, with the error for FAILED.
C3_StoppedIsTerminal ==
    \A t \in TaskIds :
        gt[t].pc \in Ended =>
            /\ status_key[t].state \in Terminal
            /\ status_key[t].state = FAILED => status_key[t].error

\* C4: a task for which cancel was requested while it was blocked waiting
\* for the next stream event ends with the persisted state CANCELLED.
C4_CancelWhileBlocked ==
    \A t \in TaskIds :
        (gt[t].cwb /\ gt[t].pc \in Ended) => status_key[t].state = CANCELLED

\* a step of TaskManager.start
StartStep == mgr = "down" /\ mgr' # "down"

\* C5 as stated: start() re-launches every id of the persisted task set
\* whose persisted state is PENDING or RUNNING, then listens.
C5_RecoverAllNonTerminal ==
    [][StartStep =>
          /\ mgr' = "listening"
          /\ \A t \in all_tasks :
                status_key[t].state \in {PENDING, RUNNING} =>
                    t \in tasks' /\ gt'[t].pc = "created"]_vars

\* C5 amended: start() re-launches every id of the persisted task set whose
\* persisted state is PENDING or RUNNING and whose configuration record
\* still exists, and no other id; then it listens.
C5_RecoverWithConfig ==
    [][StartStep =>
          /\ mgr' = "listening"
          /\ \A t \in TaskIds :
                (t \in tasks' /\ gt'[t].pc = "created")
                    <=> (/\ t \in all_tasks
                         /\ status_key[t].state \in {PENDING, RUNNING}
                         /\ config_key[t])]_vars

\* a RUNNING task re-launched by start()
C5_Witness ==
    /\ mgr = "listening"
    /\ lastOp = "idle"
    /\ \E t \in TaskIds : gt[t].pc = "created" /\ status_key[t].state = RUNNING

\* a step of _handle_control_message (one message taken off the channel)
HandleStep ==
    /\ mgr = "listening"
    /\ control # <<>>
    /\ control' = Tail(control)
    /\ mgr' # "down"

\* C6: when the handling of a create command starts a pipeline, the
\* configuration record, the status record and the task-set entry of that
\* task are in the persisted store.
C6_PersistedBeforeStart ==
    [][\A t \in TaskIds :
          (HandleStep /\ gt[t].pc # "created" /\ gt'[t].pc = "created") =>
              /\ config_key'[t]
              /\ status_key'[t].state # "none"
              /\ t \in all_tasks']_vars

\* the operation each control action is documented to reach
DocumentedOp(a) ==
    CASE a = "create" -> "create_task"
      [] a = "cancel" -> "cancel_task"
      [] a = "update_config" -> "update_config"
      [] a = "refresh_positions" -> "refresh_positions_once"
      [] OTHER -> "shutdown"

\* C7: each of create, cancel, update_config and refresh_positions,
\* delivered with the id of a task the manager holds, is dispatched to the
\* corresponding operation.
C7_Dispatch ==
    [][(HandleStep /\ Head(control).task \in tasks) =>
          lastOp' = DocumentedOp(Head(control).action)]_vars

\* C9: a run (not cancelled) whose stream met an unrecoverable setup error
\* ends FAILED with the error recorded, and with a task_end event.
C9_SetupErrorFails ==
    \A t \in TaskIds :
        (gt[t].fatal /\ ~gt[t].cancelled /\ gt[t].pc = "returned") =>
            /\ status_key[t].state = FAILED
            /\ status_key[t].error
            /\ gt[t].ends = 1

(***************************************************************************)
(* Claims about update_config (checked under ConfigSpec)                   *)
(***************************************************************************)

\* the fields of a dict at any nesting depth, as (path, value) pairs
RECURSIVE Leaves(_)
Leaves(d) ==
    UNION {IF IsDict(d.v[k])
           THEN {<<<<k>> \o l[1], l[2]>> : l \in Leaves(d.v[k])}
           ELSE {<<<<k>>, d.v[k].v>>} : k \in DOMAIN d.v}

IsPrefix(a, b) == Len(a) <= Len(b) /\ SubSeq(b, 1, Len(a)) = a

UpdateStep == patch' # patch \/ config' # config

\* C8: applying an update_config patch deep-merges it into the task's
\* configuration: every field the patch names, at any depth, takes the
\* patch's value, every field it does not name keeps its previous value,
\* and the pipeline is left as it was.
C8_DeepMerge ==
    [][UpdateStep =>
        /\ \A l \in Leaves(patch') : l \in Leaves(config')
        /\ \A l \in Leaves(config) :
              (~\E q \in Leaves(patch') : IsPrefix(q[1], l[1]))
                  => l \in Leaves(config')
        /\ UNCHANGED <<tasks, gt, status_key>>]_vars

(***************************************************************************)
(* Claims about the order book cache (checked under BookSpec)              *)
(***************************************************************************)

Uncrossed(bids, asks) ==
    (bids # <<>> /\ asks # <<>>) => best_bid(bids) <= best_ask(asks)

\* C10: after any sequence of full-book and delta messages, an outcome with
\* both ladders non-empty has best bid <= best ask.
C10_NoCrossedBook ==
    /\ Uncrossed(yes_bids, yes_asks)
    /\ Uncrossed(no_bids, no_asks)

\* the ladder of the cache that a message for asset a and side sd addresses
Ladder(b, a, sd) ==
    IF a = "YES" THEN (IF sd = "BUY" THEN b.yes_bids ELSE b.yes_asks)
    ELSE (IF sd = "BUY" THEN b.no_bids ELSE b.no_asks)

\* the cache after the step
BookAfter == [yes_bids |-> yes_bids', yes_asks |-> yes_asks',
              no_bids |-> no_bids', no_asks |-> no_asks']

\* C11: a full-book message for an outcome sets that outcome's bid and ask
\* ladders to exactly the levels the message carries (an empty side becomes
\* empty) and leaves the other outcome's ladders unchanged.
C11_FullBookReplaces ==
    [][\A a \in Assets, bl \in LevelLists, al \in LevelLists :
          UpdateBookFull(a, bl, al) =>
              /\ Ladder(BookAfter, a, "BUY") = bl
              /\ Ladder(BookAfter, a, "SELL") = al
              /\ \A o \in Assets \ {a}, sd \in Sides :
                    Ladder(BookAfter, o, sd) = Ladder(Book, o, sd)]_vars

C13_BackoffSequence ==
    ws_pc = "backoff" =>
        /\ faults >= 1
        /\ delay = (IF faults <= 5 THEN 2 ^ (faults - 1) ELSE 30)

\* the sixth fault in a row: the first capped delay
C13_Witness == ws_pc = "backoff" /\ faults = 6 /\ delay = 30

\* no thread of the client is inside _on_open, subscribe or unsubscribe
Quiescent == ws_pc = "running" /\ caller.pc = "idle"

\* C14: on an open connection, once the open handler and the calls in
\* progress are done, the ids subscribed on the connection are exactly the
\* desired ones: none is missing, none that was unsubscribed is subscribed.
C14_ResubscribeDesired == Quiescent => server = subscribed_assets

\* C15: at most one batched subscribe message is sent on one connection.
C15_OneBatchedSubscribe == batched <= 1

\* C16: a failed keepalive send is handled as a connection fault: the
\* client leaves OPEN.
C16_KeepaliveFailureIsFault ==
    [][(hb_failed' /\ ~hb_failed) => ~is_connected']_vars

\* the step at which _run_forever stops reconnecting
GiveUpStep == ws_pc # "gave_up" /\ ws_pc' = "gave_up"

\* C17: with a maximum N configured the client stops after N reconnect
\* attempts have failed in a row (the N+1-th fault) and surfaces a fatal
\* error to its consumer; with none configured it never stops on its own.
C17_GiveUpSurfacesFatal ==
    [][/\ GiveUpStep => (faults' = max_reconnect.n + 1 /\ on_error_called')
       /\ ~max_reconnect.set => ws_pc' # "gave_up"]_vars

\* _on_open has returned and the connection is open
OpenAndSettled == ws_pc = "running" /\ is_connected

\* C37: whenever the connection is open, after the first open and after
\* every reconnect, a heartbeat thread is alive and has not been told to
\* stop, so that it goes on sending PING on the connection.
C37_KeepaliveActiveWhileOpen == OpenAndSettled => (hb = "alive" /\ ~stop_hb)

\* C35: after close() has returned the client is never connected and no
\* connection of it is open, whatever the socket thread was doing when
\* close() was called.
C35_ClosedStaysClosed == stop_reconnect => (~is_connected /\ ws_pc \notin OpenPcs)

(***************************************************************************)
(* Claims about received frames (checked under FrameSpec)                  *)
(***************************************************************************)

\* C18: every frame received leads to exactly one call of the consumer
\* callback, with the decoded message or, for any other frame, the raw
\* payload: once the event loop has nothing pending, the calls that have
\* run are the frames received, in order.
C18_EveryFrameDelivered ==
    scheduled = <<>> =>
        /\ Len(calls) = Len(rx)
        /\ \A i \in 1..Len(calls) : calls[i] = Decode(rx[i])

\* C19: only book and price_change messages are ever on the queue.
C19_QueueOnlyBookKinds ==
    \A i \in 1..Len(queue) :
        queue[i].kind = "dict" /\ queue[i].event_type \in {"book", "price_change"}

\* a capacity smaller than the number of frames one run can deliver
QueueCapacity == MaxFrames - 1

\* C20: the queue's length never exceeds a fixed capacity (a producer that
\* finds it full waits for the consumer).
C20_QueueBounded == Len(queue) <= QueueCapacity

(***************************************************************************)
(* Claims about the strategies (checked under MergeSpec and LockedSpec)    *)
(***************************************************************************)

CompleteBook ==
    NoPrice \notin {order_book.yes_ask, order_book.no_ask, order_book.yes_bid, order_book.no_bid}

\* cost = min(yes_ask, 1 - no_bid) + min(no_ask, 1 - yes_bid)
Cost ==
    Min(order_book.yes_ask, One - order_book.no_bid)
        + Min(order_book.no_ask, One - order_book.yes_bid)

\* the BUY signal the claim describes: both sizes total_budget / cost, the
\* leg prices the two effective prices
MergeBuyAsClaimed ==
    /\ signal.signal_type = BUY
    /\ signal.yes_size = signal.no_size
    /\ signal.yes_size.d = Cost /\ signal.yes_size.n = params.total_budget * One
    /\ signal.yes_price = Rat(Min(order_book.yes_ask, One - order_book.no_bid), 1)
    /\ signal.no_price = Rat(Min(order_book.no_ask, One - order_book.yes_bid), 1)

ProfitYes == profit(Portfolio(position), "YES")
ProfitNo == profit(Portfolio(position), "NO")
BothMeetTarget == ProfitYes >= params.target_profit /\ ProfitNo >= params.target_profit
LowSideAsk == IF ProfitYes < ProfitNo THEN order_book.yes_ask ELSE order_book.no_ask
LowProfit == Min(ProfitYes, ProfitNo)
HighProfit == IF ProfitYes < ProfitNo THEN ProfitNo ELSE ProfitYes

\* buying x = n / d of the lower outcome at p brings its profit exactly to
\* the target (no smaller quantity does) and leaves the other at least there
LeastQuantity(x, p) ==
    /\ x.d > 0 /\ x.n > 0
    /\ LowProfit * x.d + x.n * (Settle - p) = params.target_profit * x.d
    /\ HighProfit * x.d - x.n * p >= params.target_profit * x.d

\* some quantity x >= 0 reaches the target on both outcomes at price p < 1:
\* the least one for the lower outcome, (target - LowProfit) / (1 - p), still
\* leaves the other outcome at the target
Feasible(p) ==
    (HighProfit - params.target_profit) * (Settle - p)
        >= (params.target_profit - LowProfit) * p

DocExample ==
    /\ position.yes_size = 11 /\ position.no_size = 0
    /\ position.yes_total_cost + position.no_total_cost = 1000
    /\ params.target_profit = 0 /\ order_book.no_ask = 480
    /\ signal # NoSignal

\* the quantity x shows as the two-decimal figure c / 100
Shows(x, c) == x.d > 0 /\ (2 * c - 1) * x.d <= 200 * x.n /\ 200 * x.n < (2 * c + 1) * x.d

\* a BUY of NO only, after which both projected profits are at least 0 and
\* the locked profit is 0 to two decimals
DocExampleOutcome ==
    /\ signal.signal_type = BUY /\ signal.yes_size = NoneR
    /\ signal.no_price = Rat(480, 1)
    /\ LET x == signal.no_size IN
         /\ x.d > 0
         /\ ProfitYes * x.d - x.n * 480 >= 0
         /\ ProfitNo * x.d + x.n * (Settle - 480) >= 0
         /\ 2 * (ProfitNo * x.d + x.n * (Settle - 480)) < 10 * x.d

SideSize(pos, side) == IF side = "YES" THEN pos.yes_size ELSE pos.no_size
SideCost(pos, side) == IF side = "YES" THEN pos.yes_total_cost ELSE pos.no_total_cost
SideAvg(pos, side) == IF side = "YES" THEN pos.yes_avg_cost ELSE pos.no_avg_cost

\* the first k updates are buys of the same side, size s > 0 and price
TwoEqualBuys ==
    /\ Len(updates) >= 2
    /\ updates[1].is_buy /\ updates[2] = updates[1]
    /\ updates[1].size > 0

\* C27: from an empty position, two buys of size s at price p give size 2s
\* and average_cost p, and a following sell of size s gives size s with
\* average_cost still p.
C27_TwoBuysOneSell ==
    TwoEqualBuys =>
        LET u == updates[1]
            avg == SideAvg(position, u.side)
        IN  /\ Len(updates) = 2 =>
                 /\ SideSize(position, u.side) = 2 * u.size
                 /\ avg.n = u.price * avg.d
            /\ (Len(updates) = 3 /\ updates[3] = [u EXCEPT !.is_buy = FALSE]) =>
                 /\ SideSize(position, u.side) = u.size
                 /\ avg.n = u.price * avg.d

C27_Witness ==
    /\ Len(updates) = 3 /\ TwoEqualBuys
    /\ updates[3] = [updates[1] EXCEPT !.is_buy = FALSE]
    /\ updates[1].side = "NO" /\ updates[1].size = 2 /\ updates[1].price = 480
    /\ position.no_size = 2 /\ position.no_avg_cost = Rat(1920, 4)

\* C28: each outcome's size is at least 0, no sell increases a size, and
\* total_cost = size x average_cost holds right after every buy.
C28_PositionInvariants ==
    /\ [](/\ position.yes_size >= 0 /\ position.no_size >= 0
          /\ (updates # <<>> /\ updates[Len(updates)].is_buy) =>
                LET side == updates[Len(updates)].side IN
                SideCost(position, side) * SideAvg(position, side).d
                    = SideSize(position, side) * SideAvg(position, side).n)
    /\ [][(Len(updates') = Len(updates) + 1 /\ ~updates'[Len(updates')].is_buy) =>
            /\ position'.yes_size <= position.yes_size
            /\ position'.no_size <= position.no_size]_vars

\* a buy made after a partial sell, which left total_cost at the cost of the
\* shares sold as well
C28_Witness ==
    /\ Len(updates) = 3
    /\ updates[1].is_buy /\ ~updates[2].is_buy /\ updates[3].is_buy
    /\ updates[1].side = "YES" /\ updates[2].side = "YES" /\ updates[3].side = "YES"
    /\ updates[1].size = 2 /\ updates[2].size = 1 /\ updates[3].size = 1
    /\ updates[1].price = 500 /\ updates[3].price = 480
    /\ position.yes_size = 2 /\ position.yes_total_cost = 1480

(***************************************************************************)
(* Claims about the executor (checked under ExecSpec)                      *)
(***************************************************************************)

\* the step of one _execute_strategy call
Returns == ~result.returned /\ result'.returned

LegSize(sig, leg) == IF leg = "YES" THEN sig.yes_size ELSE sig.no_size
LegPrice(sig, leg) == IF leg = "YES" THEN sig.yes_price ELSE sig.no_price

\* the records of one leg
LegRecords(orders, leg) ==
    LET OfLeg(r) == r.order_info.leg = leg IN SelectSeq(orders, OfLeg)

\* a SELL whose size for an outcome exceeds the holdings of that outcome, or
\* a BUY with a non-zero size but no price for an outcome
Rejected(sig, pos) ==
    \/ /\ sig.signal_type = SELL
       /\ \E leg \in {"YES", "NO"} :
             IsNonZero(LegSize(sig, leg)) /\ LegSize(sig, leg).n > SideSize(pos, leg)
    \/ /\ sig.signal_type = BUY
       /\ \E leg \in {"YES", "NO"} :
             IsNonZero(LegSize(sig, leg)) /\ LegPrice(sig, leg) = NoneR

\* C24: validate_signal rejects exactly the signals described, and for a
\* rejected signal the executor places no order, leaves the position
\* unchanged and returns a failed result carrying the rejection reason.
C24_RejectedSignalNotExecuted ==
    [][(Returns /\ signal.signal_type # HOLD) =>
          /\ validate_signal(signal, position).valid = ~Rejected(signal, position)
          /\ Rejected(signal, position) =>
                /\ result'.orders_placed = <<>>
                /\ position' = position
                /\ ~result'.success
                /\ result'.error = validate_signal(signal, position).reason
                /\ result'.error \in IF signal.signal_type = SELL
                                     THEN {"YES holdings", "NO holdings"}
                                     ELSE {"BUY YES no price", "BUY NO no price"}]_vars

\* a SELL of YES beyond the holdings has been refused
C24_Witness ==
    /\ result.returned /\ ~result.success /\ result.error = "YES holdings"
    /\ signal.signal_type = SELL /\ signal.yes_size = Rat(4, 1)
    /\ position.yes_size = 2 /\ result.orders_placed = <<>>

\* the position after the legs recorded as SIMULATED or SUBMITTED
RECURSIVE ApplyRecords(_, _)
ApplyRecords(pos, orders) ==
    IF orders = <<>> THEN pos
    ELSE LET r == Head(orders) IN
         ApplyRecords(IF r.status = "FAILED" THEN pos
                      ELSE update_position(pos, r.order_info.leg, r.order_info.size,
                                           r.order_info.price, r.order_info.side = BUY),
                      Tail(orders))

\* C25: for a validated BUY or SELL signal each leg with a non-zero size has
\* exactly one record, SIMULATED in simulation mode, SUBMITTED or FAILED in
\* real mode as the order call went, a leg without a size has none, and the
\* position changes by exactly the SIMULATED and SUBMITTED legs.
C25_OneRecordPerLeg ==
    [][(Returns /\ signal.signal_type \in {BUY, SELL}
          /\ validate_signal(signal, position).valid) =>
          /\ \A leg \in {"YES", "NO"} :
                LET recs == LegRecords(result'.orders_placed, leg)
                    ok == IF leg = "YES" THEN result'.yes_ok ELSE result'.no_ok
                IN  IF IsNonZero(LegSize(signal, leg))
                    THEN /\ Len(recs) = 1
                         /\ recs[1].status = IF execution_mode = SIMULATION THEN "SIMULATED"
                                             ELSE IF ok THEN "SUBMITTED" ELSE "FAILED"
                    ELSE recs = <<>>
          /\ position' = ApplyRecords(position, result'.orders_placed)]_vars

\* a leg the executor orders: its size is at least min_order_amount and it
\* has a price
Ordered(sig, leg) ==
    /\ IsNonZero(LegSize(sig, leg)) /\ LegSize(sig, leg).n >= min_order_amount
    /\ LegPrice(sig, leg) # NoneR

\* C26: in real mode, when the order call of one leg fails, the leg is
\* recorded as FAILED with the error, the position of its outcome is
\* unchanged, and the other leg the signal orders is still attempted.
C26_FailedLegDoesNotStopOther ==
    [][(Returns /\ execution_mode = REAL) =>
          \A leg \in {"YES", "NO"} :
             LET recs == LegRecords(result'.orders_placed, leg)
                 other == IF leg = "YES" THEN "NO" ELSE "YES"
                 failed == IF leg = "YES" THEN ~result'.yes_ok ELSE ~result'.no_ok
             IN  (recs # <<>> /\ failed) =>
                    /\ Len(recs) = 1 /\ recs[1].status = "FAILED" /\ recs[1].error
                    /\ SideSize(position', leg) = SideSize(position, leg)
                    /\ SideCost(position', leg) = SideCost(position, leg)
                    /\ SideAvg(position', leg) = SideAvg(position, leg)
                    /\ Ordered(signal, other) =>
                          Len(LegRecords(result'.orders_placed, other)) = 1]_vars

\* the YES order failed and the NO order was submitted
C26_Witness ==
    /\ result.returned /\ execution_mode = REAL /\ ~result.success
    /\ Len(result.orders_placed) = 2
    /\ result.orders_placed[1].order_info.leg = "YES"
    /\ result.orders_placed[1].status = "FAILED"
    /\ result.orders_placed[2].order_info.leg = "NO"
    /\ result.orders_placed[2].status = "SUBMITTED"

(***************************************************************************)
(* Claims about the objects of a pipeline (checked under RegistrySpec)     *)
(***************************************************************************)

\* the tasks whose stream has run its strategy at least once
Running == {t \in StreamTasks : streams[t].strategy # NoObject}

\* the state object (with its book lists) and the position of t's stream
OwnObjects(t) == {streams[t].state, streams[t].position} \ {NoObject}

\* C29: two tasks never share an Order Book State, a Position or a strategy
\* instance: no such object used by one task's pipeline is used by another's.
C29_NoSharedObjects ==
    \A t \in StreamTasks : \A u \in StreamTasks \ {t} :
        /\ OwnObjects(t) \cap OwnObjects(u) = {}
        /\ streams[t].strategy # NoObject => streams[t].strategy # streams[u].strategy

\* C29 (amended): two tasks never share an Order Book State or a Position,
\* and they use the same strategy instance only when they run the same
\* strategy_id.
C29_OnlyStrategyShared ==
    \A t \in StreamTasks : \A u \in StreamTasks \ {t} :
        /\ OwnObjects(t) \cap OwnObjects(u) = {}
        /\ {t, u} \subseteq Running =>
              (streams[t].strategy = streams[u].strategy
                  => streams[t].strategy_id = streams[u].strategy_id)

C29_Witness ==
    /\ Running = StreamTasks
    /\ streams["a"].strategy_id = streams["b"].strategy_id
    /\ streams["a"].state # streams["b"].state
    /\ streams["a"].position # streams["b"].position

(***************************************************************************)
(* Further claims about the task orchestrator (checked under TaskSpec)     *)
(***************************************************************************)

\* run() is handling one stream event: _handle_runtime_event (with its
\* order submission and bookkeeping) or the publication that follows it
Handling(t) == gt[t].pc \in {"handle", "publish"}

\* C31: a cancellation request takes effect only between message-processing
\* iterations: once the pipeline has begun handling one stream event, the
\* handling of that event runs to completion before the task stops.
C31_CancelBetweenIterations ==
    [][\A t \in TaskIds :
          Handling(t) => ~(gt'[t].pc = "fin_refresh" /\ gt'[t].state = CANCELLED)]_vars

\* the asyncio task of t's GameTask exists and has not ended
Live(t) == gt[t].pc \notin Done \cup {"none"}

\* C38: at any time at most one pipeline is running for a given task id,
\* under any interleaving of create commands for that id, startup recovery
\* and task termination: a pipeline is launched for an id only when no
\* pipeline of that id is running.
C38_OnePipelinePerTask ==
    [][\A t \in TaskIds :
          (gt'[t] = NewGameTask /\ gt[t] # NewGameTask) => ~Live(t)]_vars

\* a create command for an id whose pipeline is running was handled
C38_Witness ==
    \E t \in TaskIds :
        /\ lastOp = "create_task"
        /\ t \in tasks
        /\ gt[t].pc \in InTry

(***************************************************************************)
(* Claims about subscribe_task (checked under ObserverSpec)                *)
(***************************************************************************)

\* C39: an observer that attaches through subscribe_task while the task's
\* persisted state is non-terminal eventually receives the task_end event
\* once the task terminates, also when the task terminates between the
\* observer's read of the status and its subscription to the channel.  The
\* channel keeps no event for later subscribers, so an observer that is
\* waiting on the channel when run() has ended must already have been
\* handed the task_end.
C39_ObserverGetsTaskEnd ==
    \A t \in TaskIds :
        (observer[t].pc = "listening" /\ gt[t].pc \in Ended) => observer[t].task_end

(***************************************************************************)
(* Claims about restarts of the worker (checked under RestartSpec)         *)
(***************************************************************************)

\* the task was RUNNING when the worker process that is now gone stopped:
\* recorded at the call of stop(), or, after a crash, read from the
\* persisted status, which only a running pipeline sets to RUNNING
WasRunning(t) ==
    IF mgr = "stopped" THEN t \in stopped_running
    ELSE t \in all_tasks /\ status_key[t].state = RUNNING

\* C32: a task that was RUNNING when the worker process stopped, whether by
\* a crash or by TaskManager.stop() on a shutdown signal, is re-launched by
\* the startup scan of the next worker process.
C32_RunningTasksRelaunched ==
    [][(mgr \in {"down", "stopped"} /\ mgr' = "listening") =>
          \A t \in TaskIds : WasRunning(t) => t \in tasks']_vars

(***************************************************************************)
(* Claims about the ladders of the cache (checked under BookSpec)          *)
(***************************************************************************)

StrictlyDescending(levels) ==
    \A i \in 1..(Len(levels) - 1) : levels[i].price > levels[i + 1].price

StrictlyAscending(levels) ==
    \A i \in 1..(Len(levels) - 1) : levels[i].price < levels[i + 1].price

\* C34: in every reachable Order Book State each bid ladder is strictly
\* descending by price and each ask ladder strictly ascending (sorted, no
\* duplicate price), after full-book messages as well as after deltas.
C34_LaddersStrictlySorted ==
    /\ StrictlyDescending(yes_bids) /\ StrictlyDescending(no_bids)
    /\ StrictlyAscending(yes_asks) /\ StrictlyAscending(no_asks)

(***************************************************************************)
(* Claims about the executor's message loop (checked under LoopSpec)       *)
(***************************************************************************)

\* some outcome has a bid or ask level in the executor's cache
HasLevel ==
    \/ cache._yes_bids # <<>> \/ cache._yes_asks # <<>>
    \/ cache._no_bids # <<>> \/ cache._no_asks # <<>>

\* C33: a processed message is a no-op only while neither outcome has any
\* known price: once a processed book message has given an outcome a bid or
\* ask level, that message and every later processed message builds a
\* Market Snapshot and invokes the configured strategy.
C33_SnapshotOnceLevelsKnown ==
    (last_handled.processed /\ HasLevel) =>
        (last_handled.snapshot /\ last_handled.strategy)

(***************************************************************************)
(* Further claims about PositionContext (checked under PositionSpec)       *)
(***************************************************************************)

\* the size of side after the first k updates
RECURSIVE SizeAfter(_, _)
SizeAfter(side, k) ==
    IF k = 0 THEN 0
    ELSE LET u == updates[k]
             prev == SizeAfter(side, k - 1)
         IN  IF u.side # side THEN prev
             ELSE IF u.is_buy THEN prev + u.size
             ELSE size_after_sell(prev, u.size)

\* the prices of the buys of side made since its size was last 0
BuysSinceEmpty(side) ==
    LET last == CHOOSE k \in 0..Len(updates) :
                    /\ SizeAfter(side, k) = 0
                    /\ \A j \in (k + 1)..Len(updates) : SizeAfter(side, j) # 0
    IN  {updates[k].price : k \in {j \in (last + 1)..Len(updates) :
                                      updates[j].side = side /\ updates[j].is_buy}}

\* C40: after any sequence of buys and sells, a non-empty position's
\* average_cost lies between the lowest and the highest price of the buys
\* made since that outcome's size was last 0.
C40_AverageWithinBuyPrices ==
    \A side \in {"YES", "NO"} :
        SideSize(position, side) > 0 =>
            LET avg == SideAvg(position, side) IN
            /\ \E lo \in BuysSinceEmpty(side) : RatLe(Rat(lo, 1), avg)
            /\ \E hi \in BuysSinceEmpty(side) : RatLe(avg, Rat(hi, 1))

(***************************************************************************)
(* Claims about the persisted TaskConfig (checked under RoundTripSpec)     *)
(***************************************************************************)

\* C30: serializing any TaskConfig to its persisted JSON form and
\* reconstructing it, from_json(to_json(c)), yields a TaskConfig value-equal
\* to c, nested maps (strategy_params, auto_buy and its strategy rules)
\* included.
C30_JsonRoundTrip ==
    restored # NoConfig => restored = config

(***************************************************************************)
(* Claims about the book stream (checked under BookStreamSpec)             *)
(***************************************************************************)

\* C36: a book stream has at most one live client feeding its queue: when
\* start() has returned false because connect() timed out, the client it
\* created is no longer connecting or reconnecting, and at no time are two
\* clients of the stream live.
C36_OneLiveClient ==
    /\ Cardinality(LiveClients) <= 1
    /\ (start_call = "idle" /\ last_start = "timed_out") => _client \notin LiveClients

====
